---- MODULE Spec2Model ----
(***************************************************************************)
(* Model of the 3D cube viewer: figure transform (WorldSpace, Figure3D,    *)
(* Cube), perspective projection (CameraEye), screen mapping and render    *)
(* walk (ScreenSpace) and the input controller (drawTheCube,               *)
(* setupCubeInteraction).                                                  *)
(*                                                                         *)
(* Numbers.  JavaScript numbers are modelled in fixed point:               *)
(*   - world coordinates and distances are integers in tenths of a world   *)
(*     unit (near = 0.1 is 1, a cube edge of 120 is 1200);                 *)
(*   - angles are integers in hundredths of a radian (0.01 rad is 1);      *)
(*   - sines, cosines, normalized device coordinates, zoom and zoom        *)
(*     factors are integers in thousandths (1.0 is 1000);                  *)
(*   - pixel coordinates produced by toPixels are in thousandths of a      *)
(*     pixel; pointer coordinates are whole pixels.                        *)
(* Every product and quotient is rounded to the nearest integer, half away *)
(* from zero, where the code rounds to the nearest double.                 *)
(***************************************************************************)
EXTENDS Integers, Sequences, FiniteSets, TLC

VARIABLES
  win,      \* window.canvas / window.ctx present (canvas-context.js)
  legend,   \* the toggleLegend checkbox: present, checked
  scenes,   \* one record per completed drawTheCube call: its world, camera,
            \* screen and the closure state of its listeners
  frame,    \* the drawing surface: draw calls since the last clearRect
  log,      \* console.error messages
  last,     \* what the handlers of the most recent event did
  events,   \* number of events dispatched so far
  tfig,     \* a figure on its own (SpecFigure)
  tcam,     \* a camera on its own (SpecCamera, SpecFigure)
  tscr,     \* a screen on its own (SpecCamera, SpecFigure)
  tout      \* the last call made on them and its result

vars == <<win, legend, scenes, frame, log, last, events, tfig, tcam, tscr, tout>>

(***************************************************************************)
(* Fixed-point arithmetic                                                  *)
(***************************************************************************)
Abs(n) == IF n < 0 THEN -n ELSE n

Sgn(n) == IF n < 0 THEN -1 ELSE 1

\* n / d rounded to the nearest integer, half away from zero (d > 0).
Rnd(n, d) == Sgn(n) * ((Abs(n) + d \div 2) \div d)

\* v * m / 1000 rounded: the product of v with a number m given in
\* thousandths.  Split so that no intermediate exceeds 32 bits.
MulQ(v, m) ==
  LET a == Abs(v)
      b == Abs(m)
      q == a \div 1000
      r == a % 1000
  IN  Sgn(v) * Sgn(m) * (q * b + Rnd(r * b, 1000))

\* The largest quotient kept exactly; a larger one is far outside every
\* range the program tests, and is held at this magnitude.
Huge == 100000

\* v / d in thousandths, rounded (d > 0): long division, three decimal
\* places, so that no intermediate exceeds 32 bits.
DivQ(v, d) ==
  LET a  == Abs(v)
      r1 == ((a % d) * 10) % d
      r2 == (r1 * 10) % d
      r3 == (r2 * 10) % d
  IN  IF a \div d >= Huge THEN Sgn(v) * Huge * 1000
      ELSE Sgn(v) * ((a \div d) * 1000 + (((a % d) * 10) \div d) * 100
                       + ((r1 * 10) \div d) * 10 + (r2 * 10) \div d
                       + (IF 2 * r3 >= d THEN 1 ELSE 0))

\* v * n / d rounded (n, d > 0), the quotient taken first.
MulDiv(v, n, d) == Sgn(v) * ((Abs(v) \div d) * n + Rnd((Abs(v) % d) * n, d))

\* JavaScript's % : the remainder takes the sign of the dividend.
JsRem(a, b) == Sgn(a) * (Abs(a) % b)

Min2(a, b) == IF a < b THEN a ELSE b

Max2(a, b) == IF a > b THEN a ELSE b

(***************************************************************************)
(* Math.sin / Math.cos on hundredths of a radian, in thousandths.          *)
(* SinTab[k+1] = round(1000 sin(k/100)), CosTab[k+1] = round(1000 cos(k/100))*)
(* for k = 0 .. 314; other angles by oddness/evenness and the period.      *)
(***************************************************************************)
SinTab ==
  << 0, 10, 20, 30, 40, 50, 60, 70, 80, 90, 100, 110, 120, 130, 140,
     149, 159, 169, 179, 189, 199, 208, 218, 228, 238, 247, 257, 267, 276, 286,
     296, 305, 315, 324, 333, 343, 352, 362, 371, 380, 389, 399, 408, 417, 426,
     435, 444, 453, 462, 471, 479, 488, 497, 506, 514, 523, 531, 540, 548, 556,
     565, 573, 581, 589, 597, 605, 613, 621, 629, 637, 644, 652, 659, 667, 674,
     682, 689, 696, 703, 710, 717, 724, 731, 738, 745, 751, 758, 764, 771, 777,
     783, 790, 796, 802, 808, 813, 819, 825, 830, 836, 841, 847, 852, 857, 862,
     867, 872, 877, 882, 887, 891, 896, 900, 904, 909, 913, 917, 921, 925, 928,
     932, 936, 939, 942, 946, 949, 952, 955, 958, 961, 964, 966, 969, 971, 973,
     976, 978, 980, 982, 984, 985, 987, 989, 990, 991, 993, 994, 995, 996, 997,
     997, 998, 999, 999, 1000, 1000, 1000, 1000, 1000, 1000, 1000, 999, 999, 998, 998,
     997, 996, 995, 994, 993, 992, 990, 989, 987, 986, 984, 982, 980, 978, 976,
     974, 972, 969, 967, 964, 961, 958, 956, 953, 949, 946, 943, 940, 936, 933,
     929, 925, 921, 917, 913, 909, 905, 901, 896, 892, 887, 883, 878, 873, 868,
     863, 858, 853, 848, 842, 837, 831, 826, 820, 814, 808, 803, 797, 790, 784,
     778, 772, 765, 759, 752, 746, 739, 732, 725, 718, 711, 704, 697, 690, 683,
     675, 668, 661, 653, 645, 638, 630, 622, 614, 606, 598, 590, 582, 574, 566,
     558, 549, 541, 533, 524, 516, 507, 498, 490, 481, 472, 463, 454, 445, 436,
     427, 418, 409, 400, 391, 382, 372, 363, 354, 344, 335, 326, 316, 307, 297,
     287, 278, 268, 259, 249, 239, 230, 220, 210, 200, 190, 181, 171, 161, 151,
     141, 131, 121, 111, 101, 91, 82, 72, 62, 52, 42, 32, 22, 12, 2 >>

CosTab ==
  << 1000, 1000, 1000, 1000, 999, 999, 998, 998, 997, 996, 995, 994, 993, 992, 990,
     989, 987, 986, 984, 982, 980, 978, 976, 974, 971, 969, 966, 964, 961, 958,
     955, 952, 949, 946, 943, 939, 936, 932, 929, 925, 921, 917, 913, 909, 905,
     900, 896, 892, 887, 882, 878, 873, 868, 863, 858, 853, 847, 842, 836, 831,
     825, 820, 814, 808, 802, 796, 790, 784, 778, 771, 765, 758, 752, 745, 738,
     732, 725, 718, 711, 704, 697, 689, 682, 675, 667, 660, 652, 645, 637, 629,
     622, 614, 606, 598, 590, 582, 574, 565, 557, 549, 540, 532, 523, 515, 506,
     498, 489, 480, 471, 462, 454, 445, 436, 427, 418, 408, 399, 390, 381, 372,
     362, 353, 344, 334, 325, 315, 306, 296, 287, 277, 267, 258, 248, 238, 229,
     219, 209, 199, 190, 180, 170, 160, 150, 140, 130, 121, 111, 101, 91, 81,
     71, 61, 51, 41, 31, 21, 11, 1, -9, -19, -29, -39, -49, -59, -69,
     -79, -89, -99, -109, -119, -129, -139, -149, -159, -168, -178, -188, -198, -208, -217,
     -227, -237, -247, -256, -266, -276, -285, -295, -304, -314, -323, -333, -342, -352, -361,
     -370, -379, -389, -398, -407, -416, -425, -434, -443, -452, -461, -470, -479, -487, -496,
     -505, -513, -522, -531, -539, -547, -556, -564, -572, -580, -589, -597, -605, -612, -620,
     -628, -636, -644, -651, -659, -666, -674, -681, -688, -696, -703, -710, -717, -724, -731,
     -737, -744, -751, -757, -764, -770, -777, -783, -789, -795, -801, -807, -813, -819, -824,
     -830, -836, -841, -846, -852, -857, -862, -867, -872, -877, -882, -886, -891, -895, -900,
     -904, -908, -912, -916, -920, -924, -928, -932, -935, -939, -942, -946, -949, -952, -955,
     -958, -961, -963, -966, -969, -971, -973, -976, -978, -980, -982, -984, -985, -987, -989,
     -990, -991, -993, -994, -995, -996, -997, -997, -998, -999, -999, -1000, -1000, -1000, -1000 >>

\* pi and 2 pi in hundredths of a radian.
PiC == 314

TwoPiC == 628

\* The angle reduced to -314 .. 314.
Reduce(a) ==
  LET r == JsRem(a, TwoPiC)
  IN  IF r > PiC THEN r - TwoPiC ELSE IF r < -PiC THEN r + TwoPiC ELSE r

\* sin is odd, cos is even.
SinReduced(r) == Sgn(r) * SinTab[1 + Abs(r)]

Sin(a) == SinReduced(Reduce(a))

Cos(a) == CosTab[1 + Abs(Reduce(a))]

(***************************************************************************)
(* Sequences built element by element: << F(i), ..., F(n) >>, the result   *)
(* of Array.prototype.map and of the code's loops.                         *)
(***************************************************************************)
RECURSIVE Tab(_, _, _)
Tab(F(_), i, n) == IF i > n THEN << >> ELSE << F(i) >> \o Tab(F, i + 1, n)

(***************************************************************************)
(* Vertex3D and WorldSpace.rotateY / rotateX                               *)
(***************************************************************************)
V3(x, y, z) == [x |-> x, y |-> y, z |-> z]

\* A rotateY that turns p - c and leaves the result relative to the pivot.
RotateYUnpivoted(p, c, angle) ==
  LET tx == p.x - c.x
      tz == p.z - c.z
  IN  V3(MulQ(tx, Cos(angle)) - MulQ(tz, Sin(angle)), p.y,
         MulQ(tx, Sin(angle)) + MulQ(tz, Cos(angle)))

\* WorldSpace.rotateY: rotation of p about the Y axis through c.
RotateY(p, c, angle) ==
  LET sin == Sin(angle)
      cos == Cos(angle)
      tx  == p.x - c.x
      tz  == p.z - c.z
      rx  == MulQ(tx, cos) - MulQ(tz, sin)
      rz  == MulQ(tx, sin) + MulQ(tz, cos)
  IN  V3(rx + c.x, p.y, rz + c.z)

\* A rotateX about the X axis through the world origin, whatever the pivot.
RotateXAboutOrigin(p, c, angle) ==
  V3(p.x, MulQ(p.y, Cos(angle)) - MulQ(p.z, Sin(angle)),
          MulQ(p.y, Sin(angle)) + MulQ(p.z, Cos(angle)))

\* WorldSpace.rotateX: rotation of p about the X axis through c.
RotateX(p, c, angle) ==
  LET sin == Sin(angle)
      cos == Cos(angle)
      ty  == p.y - c.y
      tz  == p.z - c.z
      ry  == MulQ(ty, cos) - MulQ(tz, sin)
      rz  == MulQ(ty, sin) + MulQ(tz, cos)
  IN  V3(p.x, ry + c.y, rz + c.z)

(***************************************************************************)
(* Figure3D: base, center, yaw, pitch, position, vertices, edges (+ the    *)
(* faces and faceColors a Cube adds).                                      *)
(***************************************************************************)
\* Figure3D.rotY / rotX delegate to WorldSpace.
RotY(v, c, angle) == RotateY(v, c, angle)

RotX(v, c, angle) == RotateX(v, c, angle)

\* The translation step of applyTransform: rotated + pos.
Translated(rotated, pos) ==
  V3(rotated.x + pos.x, rotated.y + pos.y, rotated.z + pos.z)

\* The opposite composition: pitch first, then yaw.
ApplyTransformPitchFirst(base, center, yaw, pitch, pos) ==
  LET Moved(i) == Translated(RotY(RotX(base[i], center, pitch), center, yaw), pos)
  IN  Tab(Moved, 1, Len(base))

\* A transform that translates each base vertex by pos first and turns the
\* result about center afterwards.
ApplyTransformTranslateFirst(base, center, yaw, pitch, pos) ==
  LET Moved(i) == RotX(RotY(Translated(base[i], pos), center, yaw), center, pitch)
  IN  Tab(Moved, 1, Len(base))

\* Figure3D.applyTransform: the value it stores in this.vertices.
ApplyTransform(base, center, yaw, pitch, pos) ==
  LET Moved(i) == Translated(RotX(RotY(base[i], center, yaw), center, pitch), pos)
  IN  Tab(Moved, 1, Len(base))

\* Figure3D.updateTransform.
UpdateTransform(f) ==
  [f EXCEPT !.vertices = ApplyTransform(f.base, f.center, f.yaw, f.pitch, f.position)]

\* Default rotation of a new Cube: Math.PI / 4 and -Math.PI / 6.
CubeYaw0 == 79

CubePitch0 == -52

\* Cube constructor, for an edge given in tenths of a unit and a position in
\* world units.
CubeOfEdge(edge, x, y, z) ==
  LET s == edge \div 2
  IN  UpdateTransform(
        [position |-> V3(x * 10, y * 10, z * 10),
         center   |-> V3(0, 0, 0),
         yaw      |-> CubeYaw0,
         pitch    |-> CubePitch0,
         base     |-> << V3(-s, -s,  s), V3( s, -s,  s), V3( s,  s,  s), V3(-s,  s,  s),
                         V3(-s, -s, -s), V3( s, -s, -s), V3( s,  s, -s), V3(-s,  s, -s) >>,
         edges    |-> << <<0, 1>>, <<1, 2>>, <<2, 3>>, <<3, 0>>,
                         <<4, 5>>, <<5, 6>>, <<6, 7>>, <<7, 4>>,
                         <<0, 4>>, <<1, 5>>, <<2, 6>>, <<3, 7>> >>,
         faces    |-> << <<0, 1, 2, 3>>, <<5, 4, 7, 6>>, <<1, 5, 6, 2>>,
                         <<4, 0, 3, 7>>, <<3, 2, 6, 7>>, <<0, 4, 5, 1>> >>,
         faceColors |-> << "red", "green", "blue", "yellow", "cyan", "magenta" >>,
         vertices |-> << >>])

\* Cube constructor, size and position in world units.
NewCube(size, x, y, z) == CubeOfEdge(size * 10, x, y, z)

\* A move that shifts the stored vertices by the figure's new position
\* instead of recomputing them from base.
MoveRetranslating(f, dx, dy, dz) ==
  LET pos == V3(f.position.x + dx, f.position.y + dy, f.position.z + dz)
      Shifted(i) == Translated(f.vertices[i], pos)
  IN  [f EXCEPT !.position = pos, !.vertices = Tab(Shifted, 1, Len(f.vertices))]

\* Cube.move.
Move(f, dx, dy, dz) ==
  UpdateTransform(
    [f EXCEPT !.position = V3(f.position.x + dx, f.position.y + dy, f.position.z + dz)])

\* A rotate that turns the stored vertices by the increment instead of
\* recomputing them from base.
RotateIncremental(f, dYaw, dPitch) ==
  [f EXCEPT !.yaw = f.yaw + dYaw,
            !.pitch = f.pitch + dPitch,
            !.vertices =
               LET c == V3(f.center.x + f.position.x, f.center.y + f.position.y,
                           f.center.z + f.position.z)
                   Turned(i) == RotX(RotY(f.vertices[i], c, dYaw), c, dPitch)
               IN  Tab(Turned, 1, Len(f.vertices))]

\* Cube.rotate.
Rotate(f, dYaw, dPitch) ==
  UpdateTransform([f EXCEPT !.yaw = f.yaw + dYaw, !.pitch = f.pitch + dPitch])

(***************************************************************************)
(* CameraEye                                                               *)
(***************************************************************************)
\* fovY = 60 degrees, near, far: the field initialisers.
FovY == 105

Near == 1

Far == 10000000

\* Math.PI / 2 and the pitch limit Math.PI / 2 - 0.01.
HalfPiC == 157

MaxPitch == 156

\* new CameraEye(screen): position and orientation zero.
NewCamera ==
  [position |-> V3(0, 0, 0), orientation |-> [yaw |-> 0, pitch |-> 0],
   fovY |-> FovY, near |-> Near, far |-> Far]

\* Math.tan(a / 2), by the half-angle identity sin a / (1 + cos a).
TanHalf(a) == Rnd(1000 * Sin(a), 1000 + Cos(a))

\* The null result of projectNorm.
Null == [ok |-> FALSE, x |-> 0, y |-> 0, distance |-> 0]

\* The camera-relative point in the frame turned by the camera's yaw:
\* rotatedX and rotatedZ of projectNorm.
RotatedX(cam, v) ==
  MulQ(v.x - cam.position.x, Cos(cam.orientation.yaw))
    + MulQ(v.z - cam.position.z, Sin(cam.orientation.yaw))

RotatedZ(cam, v) ==
  MulQ(v.z - cam.position.z, Cos(cam.orientation.yaw))
    - MulQ(v.x - cam.position.x, Sin(cam.orientation.yaw))

\* A projectNorm tail without the frustum clip: every finite point is returned.
FrustumUnclipped(x, y, distance) == [ok |-> TRUE, x |-> x, y |-> y, distance |-> distance]

\* The frustum clip to [-1, 1] and the point projectNorm returns.
FrustumClip(x, y, distance) ==
  IF x < -1000 \/ x > 1000 \/ y < -1000 \/ y > 1000 THEN Null
  ELSE [ok |-> TRUE, x |-> x, y |-> y, distance |-> distance]

\* A projection that divides by tan(fovY / 2) only, leaving the depth out.
PerspectiveNoDepth(scr, rotatedX, Y, rotatedZ, den) ==
  FrustumClip(MulDiv(DivQ(rotatedX * 100, TanHalf(FovY)), scr.height, scr.width),
              DivQ(Y * 100, TanHalf(FovY)), rotatedZ)

\* Xp = rotatedX / den, Yp = Y / den with den = rotatedZ * tanHalfFov, and
\* Xp / aspect with aspect = width / height.  A zero divisor gives Infinity
\* or NaN, which the Number.isFinite test rejects.
PerspectiveDivide(scr, rotatedX, Y, rotatedZ, den) ==
  IF den = 0 THEN Null
  ELSE FrustumClip(MulDiv(DivQ(rotatedX, den), scr.height, scr.width),
                   DivQ(Y, den), rotatedZ)

\* A clipping-plane test with strict comparisons: a point exactly at near or
\* at far is let through.
ClipPlanesStrict(cam, scr, rotatedX, Y, rotatedZ) ==
  IF rotatedZ < cam.near \/ rotatedZ > cam.far THEN Null
  ELSE PerspectiveDivide(scr, rotatedX, Y, rotatedZ, MulQ(rotatedZ, TanHalf(cam.fovY)))

\* if (rotatedZ <= this.near || rotatedZ >= this.far) return null.
ClipPlanes(cam, scr, rotatedX, Y, rotatedZ) ==
  IF rotatedZ <= cam.near \/ rotatedZ >= cam.far THEN Null
  ELSE PerspectiveDivide(scr, rotatedX, Y, rotatedZ, MulQ(rotatedZ, TanHalf(cam.fovY)))

\* A projectNorm that lets a point at depth zero through both the
\* clipping-plane test and the isFinite test: the division by zero gives NaN
\* coordinates (written 0 here), which compare false with every bound of the
\* frustum clip and are returned.
ProjectNormUnguarded(cam, scr, vertex) ==
  IF RotatedZ(cam, vertex) = 0
  THEN [ok |-> TRUE, x |-> 0, y |-> 0, distance |-> 0]
  ELSE ClipPlanes(cam, scr, RotatedX(cam, vertex), vertex.y - cam.position.y,
                  RotatedZ(cam, vertex))

\* CameraEye.projectNorm.  The orientation's pitch is not read.
ProjectNorm(cam, scr, vertex) ==
  ClipPlanes(cam, scr, RotatedX(cam, vertex), vertex.y - cam.position.y,
             RotatedZ(cam, vertex))

\* CameraEye.rotateYaw.
RotateYaw(cam, angle) ==
  [cam EXCEPT !.orientation.yaw = JsRem(cam.orientation.yaw + angle, TwoPiC)]

\* A rotatePitch without the clamp.
RotatePitchUnclamped(cam, angle) ==
  [cam EXCEPT !.orientation.pitch = cam.orientation.pitch + angle]

\* CameraEye.rotatePitch.
RotatePitch(cam, angle) ==
  [cam EXCEPT !.orientation.pitch =
     Max2(Min2(cam.orientation.pitch + angle, MaxPitch), -MaxPitch)]

\* CameraEye.moveForward, distance in tenths of a unit.
MoveForward(cam, distance) ==
  LET dirX == Sin(-cam.orientation.yaw)
      dirZ == Cos(-cam.orientation.yaw)
  IN  [cam EXCEPT !.position.x = cam.position.x + MulQ(distance, dirX),
                  !.position.z = cam.position.z + MulQ(distance, dirZ)]

\* CameraEye.moveSideways.
MoveSideways(cam, distance) ==
  LET dirX == Sin(-(cam.orientation.yaw + HalfPiC))
      dirZ == Cos(-(cam.orientation.yaw + HalfPiC))
  IN  [cam EXCEPT !.position.x = cam.position.x + MulQ(distance, dirX),
                  !.position.z = cam.position.z + MulQ(distance, dirZ)]

(***************************************************************************)
(* ScreenSpace                                                             *)
(***************************************************************************)
\* new ScreenSpace(canvasCtx, world): the canvas size, zoom 1, legend shown.
NewScreen(width, height) ==
  [width |-> width, height |-> height, zoom |-> 1000,
   showLegend |-> TRUE, activeKeys |-> {}]

P2(x, y) == [x |-> x, y |-> y]

\* The mapping with the vertical half extent as the scale of both axes.
ToPixelsUniform(scr, n) ==
  LET centerX == scr.width * 500
      centerY == scr.height * 500
      x == MulQ(centerY, n.x)
      y == -MulQ(centerY, n.y)
  IN  P2(centerX + MulQ(x, scr.zoom), centerY + MulQ(y, scr.zoom))

\* The mapping at zoom 1, whatever the screen's zoom.
ToPixelsUnzoomed(scr, n) ==
  LET centerX == scr.width * 500
      centerY == scr.height * 500
  IN  P2(centerX + MulQ(centerX, n.x), centerY - MulQ(centerY, n.y))

\* ScreenSpace.toPixels, in thousandths of a pixel.
ToPixels(scr, n) ==
  LET centerX == scr.width * 500
      centerY == scr.height * 500
      x == MulQ(centerX, n.x)
      y == -MulQ(centerY, n.y)
  IN  P2(centerX + MulQ(x, scr.zoom), centerY + MulQ(y, scr.zoom))

(***************************************************************************)
(* ScreenSpace.drawFigure and renderEyeView.  A draw call is a record      *)
(*   [op, fig, id, pts, tone]: op "clear", "fill" (ctx.fill of a face      *)
(*   path), "line" (ctx.stroke of an edge), "dot" (ctx.arc + fill of a     *)
(*   vertex marker), "rect" (fillRect) or "text" (fillText); fig the       *)
(*   figure's index in the world, id the face index / edge indices /       *)
(*   vertex index (0-based as in the code), pts the pixel points, tone     *)
(*   the marker's focus level in thousandths.                              *)
(***************************************************************************)
Call(op, fig, id, pts, tone) ==
  [op |-> op, fig |-> fig, id |-> id, pts |-> pts, tone |-> tone]

\* An entry of projectedVertices: { projected, pixel } or null; reading an
\* index outside the array gives undefined.
PvNull == [st |-> "null", projected |-> Null, pixel |-> P2(0, 0)]

PvUndefined == [st |-> "undefined", projected |-> Null, pixel |-> P2(0, 0)]

\* if (!projected) return null; return { projected, pixel: toPixels(projected) }.
PvEntry(scr, projected) ==
  IF ~projected.ok THEN PvNull
  ELSE [st |-> "ok", projected |-> projected, pixel |-> ToPixels(scr, projected)]

\* figure.vertices.map(vertex => ...): project every vertex once.
ProjectVertices(scr, cam, fig) ==
  LET Entry(i) == PvEntry(scr, ProjectNorm(cam, scr, fig.vertices[i]))
  IN  Tab(Entry, 1, Len(fig.vertices))

\* projectedVertices[idx] for a 0-based idx.
At(pv, idx) == IF idx >= 0 /\ idx < Len(pv) THEN pv[idx + 1] ELSE PvUndefined

\* facesWithDepth: totalDistance and visibleVertices of each face;
\* avgDistance is tot / cnt, Infinity when cnt = 0.
RECURSIVE FaceDepthSum(_, _, _)
FaceDepthSum(pv, face, j) ==
  IF j > Len(face) THEN [tot |-> 0, cnt |-> 0]
  ELSE LET rest == FaceDepthSum(pv, face, j + 1)
           p == At(pv, face[j])
       IN  IF p.st = "ok"
           THEN [tot |-> rest.tot + p.projected.distance, cnt |-> rest.cnt + 1]
           ELSE rest

FaceEntry(faceIndex, face, d) ==
  [faceIndex |-> faceIndex, face |-> face, tot |-> d.tot, cnt |-> d.cnt]

FacesWithDepth(pv, fig) ==
  LET Entry(k) == FaceEntry(k - 1, fig.faces[k], FaceDepthSum(pv, fig.faces[k], 1))
  IN  Tab(Entry, 1, Len(fig.faces))

\* a.avgDistance > b.avgDistance (Infinity - Infinity is NaN: not greater).
Farther(a, b) ==
  IF a.cnt = 0 THEN b.cnt # 0
  ELSE IF b.cnt = 0 THEN FALSE
  ELSE a.tot * b.cnt > b.tot * a.cnt

\* facesWithDepth.sort((a, b) => b.avgDistance - a.avgDistance): a stable
\* sort, farthest first.
RECURSIVE InsertFace(_, _)
InsertFace(sorted, e) ==
  IF sorted = << >> THEN << e >>
  ELSE IF Farther(e, Head(sorted)) THEN << e >> \o sorted
  ELSE << Head(sorted) >> \o InsertFace(Tail(sorted), e)

\* No sort: the faces in the order of the figure's list.
FacesInListOrder(fs, n) == fs

RECURSIVE SortFaces(_, _)
SortFaces(fs, n) ==
  IF n = 0 THEN << >> ELSE InsertFace(SortFaces(fs, n - 1), fs[n])

\* The draw calls of one step of a loop put before those of the rest.
Then(calls, rest) == [calls |-> calls \o rest.calls, threw |-> rest.threw]

\* The vertices of a face looked up in projectedVertices.
FaceVertices(pv, face) ==
  LET V(j) == At(pv, face[j]) IN Tab(V, 1, Len(face))

\* ctx.moveTo / lineTo over the face's pixels, closePath, fill.
FillCall(figIdx, faceIndex, vs) ==
  LET Pixel(j) == vs[j].pixel
  IN  Call("fill", figIdx, << faceIndex >>, Tab(Pixel, 1, Len(vs)), 0)

\* The fill loop.  A face with a null vertex is skipped; reading .pixel of an
\* undefined entry (an index outside the vertex array, or vertices[0] of an
\* empty face) throws a TypeError, which ends the walk.
RECURSIVE FillFaces(_, _, _, _)
\* A loop body without the skip test: the face is filled whatever its
\* vertices, a non-visible one standing at the canvas origin.
FillFaceUnchecked(pv, figIdx, sorted, k, vs) ==
  Then(<< FillCall(figIdx, sorted[k].faceIndex, vs) >>,
       FillFaces(pv, figIdx, sorted, k + 1))

FillFace(pv, figIdx, sorted, k, vs) ==
  IF \E j \in 1..Len(vs) : vs[j].st = "null"
  THEN FillFaces(pv, figIdx, sorted, k + 1)
  ELSE IF Len(vs) = 0 \/ \E j \in 1..Len(vs) : vs[j].st = "undefined"
  THEN [calls |-> << >>, threw |-> TRUE]
  ELSE Then(<< FillCall(figIdx, sorted[k].faceIndex, vs) >>,
            FillFaces(pv, figIdx, sorted, k + 1))

FillFaces(pv, figIdx, sorted, k) ==
  IF k > Len(sorted) THEN [calls |-> << >>, threw |-> FALSE]
  ELSE FillFace(pv, figIdx, sorted, k, FaceVertices(pv, sorted[k].face))

\* An edge loop that draws an edge as soon as its first endpoint is visible.
EdgeCallsFirstOnly(pv, figIdx, fig) ==
  LET Drawn(e) == At(pv, e[1]).st = "ok"
      Line(e) == Call("line", figIdx, e, << At(pv, e[1]).pixel, At(pv, e[2]).pixel >>, 0)
      RECURSIVE Walk(_)
      Walk(k) == IF k > Len(fig.edges) THEN << >>
                 ELSE (IF Drawn(fig.edges[k]) THEN << Line(fig.edges[k]) >> ELSE << >>)
                      \o Walk(k + 1)
  IN  Walk(1)

\* The edge loop: skip if either endpoint is null or undefined.
EdgeCalls(pv, figIdx, fig) ==
  LET Drawn(e) == At(pv, e[1]).st = "ok" /\ At(pv, e[2]).st = "ok"
      Line(e) == Call("line", figIdx, e, << At(pv, e[1]).pixel, At(pv, e[2]).pixel >>, 0)
      RECURSIVE Walk(_)
      Walk(k) == IF k > Len(fig.edges) THEN << >>
                 ELSE (IF Drawn(fig.edges[k]) THEN << Line(fig.edges[k]) >> ELSE << >>)
                      \o Walk(k + 1)
  IN  Walk(1)

\* minDist / maxDist over the visible vertices (Infinity and 0 to start:
\* with no visible vertex the values are not used).
VisibleIdx(pv) == {i \in 1..Len(pv) : pv[i].st = "ok"}

MinDist(pv) ==
  CHOOSE d \in {pv[i].projected.distance : i \in VisibleIdx(pv)} :
    \A i \in VisibleIdx(pv) : d <= pv[i].projected.distance

MaxDist(pv) ==
  Max2(0, CHOOSE d \in {pv[i].projected.distance : i \in VisibleIdx(pv)} :
            \A i \in VisibleIdx(pv) : d >= pv[i].projected.distance)

\* A focusLevel normalized by maxDist - minDist itself, with no least range.
FocusLevelUnfloored(minDist, maxDist, distance) ==
  IF maxDist = minDist THEN 1000
  ELSE 1000 - DivQ(distance - minDist, maxDist - minDist)

\* focusLevel of a visible vertex, in thousandths; the range is at least one
\* world unit.
FocusLevel(minDist, maxDist, distance) ==
  LET distRange == Max2(maxDist - minDist, 10)
  IN  1000 - DivQ(distance - minDist, distRange)

\* The vertex markers, in vertex order.
DotsFrom(pv, figIdx, minDist, maxDist) ==
  LET RECURSIVE Walk(_)
      Walk(i) == IF i > Len(pv) THEN << >>
                 ELSE (IF pv[i].st = "ok"
                       THEN << Call("dot", figIdx, << i - 1 >>, << pv[i].pixel >>,
                                    FocusLevel(minDist, maxDist,
                                               pv[i].projected.distance)) >>
                       ELSE << >>) \o Walk(i + 1)
  IN  Walk(1)

DotCalls(pv, figIdx) == DotsFrom(pv, figIdx, MinDist(pv), MaxDist(pv))

\* The edges and the vertex markers follow the faces unless the fill loop
\* threw.
AfterFaces(fills, pv, figIdx, fig) ==
  IF fills.threw THEN fills
  ELSE [calls |-> fills.calls \o EdgeCalls(pv, figIdx, fig) \o DotCalls(pv, figIdx),
        threw |-> FALSE]

DrawProjected(pv, figIdx, fig) ==
  AfterFaces(FillFaces(pv, figIdx, SortFaces(FacesWithDepth(pv, fig), Len(fig.faces)), 1),
             pv, figIdx, fig)

\* ScreenSpace.drawFigure: the draw calls it issues and whether it threw.
DrawFigure(scr, cam, fig, figIdx) ==
  DrawProjected(ProjectVertices(scr, cam, fig), figIdx, fig)

\* getDirectionFromYaw: the sector 0 (North) .. 7 (North-West) of the yaw.
DirectionSector(degrees) ==
  IF degrees >= 3375 \/ degrees < 225 THEN 0 ELSE (degrees + 225) \div 450

DirectionFromYaw(yaw) ==
  \* normalizedYaw in radians, then degrees (here in tenths of a degree)
  DirectionSector(Rnd(JsRem(JsRem(yaw, TwoPiC) + TwoPiC, TwoPiC) * 1800, PiC))

\* The legend block of renderEyeView.
LegendCalls(scr, cam) ==
  IF ~scr.showLegend THEN << >>
  ELSE << Call("rect", 0, << >>, << >>, 0),
          Call("text", 0, << cam.position.x, cam.position.y, cam.position.z >>, << >>, 0),
          Call("text", 0, << JsRem(Rnd(cam.orientation.yaw * 1800, PiC), 3600),
                             Rnd(cam.orientation.pitch * 1800, PiC) >>, << >>, 0),
          Call("text", 0, << DirectionFromYaw(cam.orientation.yaw) >>, << >>, 0),
          Call("text", 0, << >>, << >>, 0) >>
       \o (IF scr.activeKeys # {}
           THEN << Call("rect", 0, << >>, << >>, 0),
                   Call("text", 0, << Cardinality(scr.activeKeys) >>, << >>, 0) >>
           ELSE << >>)

\* The figures.forEach of renderEyeView: every figure in world order.  An
\* exception thrown by drawFigure ends the pass.
RECURSIVE DrawFigures(_, _, _, _)
DrawNext(d, scr, cam, world, k) ==
  IF d.threw THEN d ELSE Then(d.calls, DrawFigures(scr, cam, world, k + 1))

DrawFigures(scr, cam, world, k) ==
  IF k > Len(world) THEN [calls |-> << >>, threw |-> FALSE]
  ELSE DrawNext(DrawFigure(scr, cam, world[k], k), scr, cam, world, k)

\* The legend is drawn after the figures, unless the pass was aborted.
WithLegend(figs, scr, cam) ==
  IF figs.threw THEN figs
  ELSE [calls |-> figs.calls \o LegendCalls(scr, cam), threw |-> FALSE]

\* A renderEyeView that also writes a running count, the number of events
\* handled so far, on the canvas.
RenderEyeViewCounting(scr, cam, world) ==
  WithLegend(Then(<< Call("clear", 0, << >>, << >>, 0), Call("text", 0, << events >>, << >>, 0) >>,
                  DrawFigures(scr, cam, world, 1)), scr, cam)

\* ScreenSpace.renderEyeView: clearRect, the figures, the legend.
RenderEyeView(scr, cam, world) ==
  WithLegend(Then(<< Call("clear", 0, << >>, << >>, 0) >>,
                  DrawFigures(scr, cam, world, 1)), scr, cam)
(***************************************************************************)
(* The controller: drawTheCube, initToolbarControls, setupCubeInteraction. *)
(* A scene is what one drawTheCube call creates: world, camera, screen and *)
(* the variables its listeners close over.                                 *)
(***************************************************************************)
\* Speeds of setupCubeInteraction: 0.01 rad / pixel, 1 unit / pixel (10
\* tenths), 0.05 rad and 10 units (100 tenths) per key press.
YawSpeed == 1

PitchSpeed == 1

MoveSpeed == 10

CameraRotationSpeed == 5

CameraMovementSpeed == 100

\* Wheel factors 1.1 and 0.9.
ZoomIn == 1100

ZoomOut == 900

\* Bounds of the model: events dispatched, controllers installed.
MaxEvents == 3

MaxScenes == 1

\* Pointer positions (clientX, clientY) of pointer events, in pixels.
Coords == {0, 1}

Keys == {"ArrowUp", "ArrowDown", "ArrowLeft", "ArrowRight", "a"}

\* cube.yaw = 0; cube.pitch = 0; cube.updateTransform() of drawTheCube.
Upright(cube) == UpdateTransform([cube EXCEPT !.yaw = 0, !.pitch = 0])

\* What drawTheCube builds once canvas and context are there, after
\* initToolbarControls and setupCubeInteraction.
NewScene(w, lg) ==
  LET screen0 == NewScreen(w.width, w.height)
      camera == [NewCamera EXCEPT !.position = V3(0, 0, -50)]
      world == << Upright(NewCube(120, 0, 0, 400)),
                  Upright(NewCube(80, -200, 0, 300)),
                  Upright(NewCube(150, 250, 0, 500)) >>
      screen == IF lg.present THEN [screen0 EXCEPT !.showLegend = lg.checked] ELSE screen0
  IN  [world |-> world, camera |-> camera, screen |-> screen,
       dragging |-> FALSE, lastX |-> 0, lastY |-> 0, keysPressed |-> {},
       legendListener |-> lg.present]

\* The result of a handler: the scene it leaves and the render passes it made.
Render(sc) == RenderEyeView(sc.screen, sc.camera, sc.world)

Done(sc, passes) == [scene |-> sc, renders |-> passes]

\* pointerdown, pointerup, pointerleave listeners.
OnPointerDown(sc, x, y) ==
  Done([sc EXCEPT !.dragging = TRUE, !.lastX = x, !.lastY = y], << >>)

OnPointerUp(sc) == Done([sc EXCEPT !.dragging = FALSE], << >>)

OnPointerLeave(sc) == Done([sc EXCEPT !.dragging = FALSE], << >>)

\* A pointermove listener that renders before and after the change.
OnPointerMoveTwice(sc, x, y, shiftKey) ==
  IF ~sc.dragging THEN Done(sc, << >>)
  ELSE LET dx == x - sc.lastX
           dy == y - sc.lastY
           cube == sc.world[1]
           moved == IF shiftKey THEN Move(cube, dx * MoveSpeed, -dy * MoveSpeed, 0)
                    ELSE Rotate(cube, dx * YawSpeed, dy * PitchSpeed)
           sc2 == [sc EXCEPT !.lastX = x, !.lastY = y, !.world[1] = moved]
       IN  Done(sc2, << Render(sc), Render(sc2) >>)

\* A pointermove listener with the roles of the modifier exchanged: it turns
\* the cube when Shift is held and moves it otherwise.
OnPointerMoveShiftTurns(sc, x, y, shiftKey) ==
  IF ~sc.dragging THEN Done(sc, << >>)
  ELSE LET dx == x - sc.lastX
           dy == y - sc.lastY
           cube == sc.world[1]
           moved == IF ~shiftKey THEN Move(cube, dx * MoveSpeed, -dy * MoveSpeed, 0)
                    ELSE Rotate(cube, dx * YawSpeed, dy * PitchSpeed)
           sc2 == [sc EXCEPT !.lastX = x, !.lastY = y, !.world[1] = moved]
       IN  Done(sc2, << Render(sc2) >>)

\* A pointermove listener that measures every move from the pointer-down
\* position: it leaves lastX and lastY as pointerdown set them.
OnPointerMoveFromDown(sc, x, y, shiftKey) ==
  IF ~sc.dragging THEN Done(sc, << >>)
  ELSE LET dx == x - sc.lastX
           dy == y - sc.lastY
           cube == sc.world[1]
           moved == IF shiftKey THEN Move(cube, dx * MoveSpeed, -dy * MoveSpeed, 0)
                    ELSE Rotate(cube, dx * YawSpeed, dy * PitchSpeed)
           sc2 == [sc EXCEPT !.world[1] = moved]
       IN  Done(sc2, << Render(sc2) >>)

\* A pointermove listener that moves or turns every figure of the world.
OnPointerMoveAll(sc, x, y, shiftKey) ==
  IF ~sc.dragging THEN Done(sc, << >>)
  ELSE LET dx == x - sc.lastX
           dy == y - sc.lastY
           Moved(i) == IF shiftKey THEN Move(sc.world[i], dx * MoveSpeed, -dy * MoveSpeed, 0)
                       ELSE Rotate(sc.world[i], dx * YawSpeed, dy * PitchSpeed)
           sc2 == [sc EXCEPT !.lastX = x, !.lastY = y,
                             !.world = [i \in 1..Len(sc.world) |-> Moved(i)]]
       IN  Done(sc2, << Render(sc2) >>)

\* pointermove listener.
OnPointerMove(sc, x, y, shiftKey) ==
  IF ~sc.dragging THEN Done(sc, << >>)
  ELSE LET dx == x - sc.lastX
           dy == y - sc.lastY
           \* world.getFigures()[0]
           cube == sc.world[1]
           moved == IF shiftKey THEN Move(cube, dx * MoveSpeed, -dy * MoveSpeed, 0)
                    ELSE Rotate(cube, dx * YawSpeed, dy * PitchSpeed)
           sc2 == [sc EXCEPT !.lastX = x, !.lastY = y, !.world[1] = moved]
       IN  Done(sc2, << Render(sc2) >>)

\* wheel listener: screen.zoom *= factor.
OnWheel(sc, deltaY) ==
  LET factor == IF deltaY < 0 THEN ZoomIn ELSE ZoomOut
      sc2 == [sc EXCEPT !.screen.zoom = MulQ(sc.screen.zoom, factor)]
  IN  Done(sc2, << Render(sc2) >>)

\* keydown listener.
OnKeyDown(sc, key) ==
  LET keys == sc.keysPressed \cup {key}
      cam == CASE key = "ArrowUp"    -> MoveForward(sc.camera, CameraMovementSpeed)
               [] key = "ArrowDown"  -> MoveForward(sc.camera, -CameraMovementSpeed)
               [] key = "ArrowLeft"  -> RotateYaw(sc.camera, CameraRotationSpeed)
               [] key = "ArrowRight" -> RotateYaw(sc.camera, -CameraRotationSpeed)
               [] OTHER              -> sc.camera
      sc2 == [sc EXCEPT !.keysPressed = keys, !.screen.activeKeys = keys, !.camera = cam]
  IN  Done(sc2, << Render(sc2) >>)

\* keyup listener.
OnKeyUp(sc, key) ==
  LET keys == sc.keysPressed \ {key}
      sc2 == [sc EXCEPT !.keysPressed = keys, !.screen.activeKeys = keys]
  IN  Done(sc2, << Render(sc2) >>)

\* change listener of the toggleLegend checkbox (installed when the
\* checkbox exists).
OnLegendChange(sc, checked) ==
  IF ~sc.legendListener THEN Done(sc, << >>)
  ELSE LET sc2 == [sc EXCEPT !.screen.showLegend = checked]
       IN  Done(sc2, << Render(sc2) >>)

\* A drawTheCube that builds and draws the scene whenever the canvas element
\* exists, checking the context only to log.
DrawTheCubeCanvasOnly(w, lg) ==
  IF ~w.canvas THEN [error |-> << "Canvas not found" >>, created |-> << >>]
  ELSE [error |-> IF w.ctx THEN << >> ELSE << "Canvas context not found" >>,
        created |-> << NewScene(w, lg) >>]

\* drawTheCube: the error it logs, or the scene it creates.
DrawTheCube(w, lg) ==
  IF ~w.canvas THEN [error |-> << "Canvas not found" >>, created |-> << >>]
  ELSE IF ~w.ctx THEN [error |-> << "Canvas context not found" >>, created |-> << >>]
  ELSE [error |-> << >>, created |-> << NewScene(w, lg) >>]

(***************************************************************************)
(* Specification Spec: the page.  Events are dispatched one at a time;     *)
(* every listener of every installed controller runs to completion, in     *)
(* registration order.  frame is what the canvas shows: the draw calls of  *)
(* the latest render pass and the controller (scene) that made it.         *)
(***************************************************************************)
NoFrame == [scene |-> 0, calls |-> << >>]

\* The last event dispatched: its type, its clientX and clientY and whether
\* Shift was held (pointer events; 0 and FALSE otherwise), and the render
\* passes each controller made on it.
NoEvent == [event |-> "none", x |-> 0, y |-> 0, shiftKey |-> FALSE, renders |-> << >>]

\* The figure, camera and screen variables of the other specifications
\* do not change while the page runs.
IdleFigure == Upright(NewCube(120, 0, 0, 400))

IdleScreen == NewScreen(800, 600)

Idle ==
  /\ tfig = IdleFigure
  /\ tcam = NewCamera
  /\ tscr = IdleScreen
  /\ tout = [op |-> "none"]

Init ==
  /\ \E c \in BOOLEAN, x \in BOOLEAN, size \in {<<800, 600>>} :
       win = [canvas |-> c, ctx |-> x, width |-> size[1], height |-> size[2]]
  /\ \E p \in BOOLEAN : legend = [present |-> p, checked |-> TRUE]
  /\ scenes = << >>
  /\ frame = NoFrame
  /\ log = << >>
  /\ last = NoEvent
  /\ events = 0
  /\ Idle

\* The canvas after the listeners ran: the last render pass made, if any.
RECURSIVE LastPass(_, _, _)
LastPass(results, i, shown) ==
  IF i = 0 THEN shown
  ELSE IF results[i].renders = << >> THEN LastPass(results, i - 1, shown)
  ELSE [scene |-> i, calls |-> results[i].renders[Len(results[i].renders)].calls]

\* The state after the listeners of every controller ran on one event.
DispatchedAt(budget, kind, x, y, shiftKey, results) ==
  LET S(i) == results[i].scene
      N(i) == Len(results[i].renders)
  IN  /\ events < budget
      /\ scenes # << >>
      /\ scenes' = Tab(S, 1, Len(scenes))
      /\ frame' = LastPass(results, Len(scenes), frame)
      /\ last' = [event |-> kind, x |-> x, y |-> y, shiftKey |-> shiftKey,
                  renders |-> Tab(N, 1, Len(scenes))]
      /\ events' = events + 1
      /\ UNCHANGED <<win, log, tfig, tcam, tscr, tout>>

\* Dispatch of one event; H(i) is the run of controller i's listener.
DeliverWithin(budget, kind, H(_)) ==
  DispatchedAt(budget, kind, 0, 0, FALSE, Tab(H, 1, Len(scenes)))

Deliver(kind, H(_)) == DeliverWithin(MaxEvents, kind, H)

\* The page after a drawTheCube call that returned r, within a budget of
\* events and a limit of scenes.
AfterDrawTheCubeWithin(budget, limit, r) ==
  LET Zero(i) == 0
      One(i) == 1
  IN  /\ events < budget
      /\ r.created # << >> => Len(scenes) < limit
      /\ scenes' = scenes \o r.created
      /\ log' = log \o r.error
      /\ frame' = IF r.created = << >> THEN frame
                  ELSE [scene |-> Len(scenes) + 1, calls |-> Render(r.created[1]).calls]
      /\ last' = [event |-> "drawTheCube", x |-> 0, y |-> 0, shiftKey |-> FALSE,
                  renders |-> Tab(Zero, 1, Len(scenes)) \o Tab(One, 1, Len(r.created))]
      /\ events' = events + 1
      /\ UNCHANGED <<win, legend, tfig, tcam, tscr, tout>>

\* The page-load call of initCubeDrawing or a click on "Draw the Cube".
DrawTheCubeCall == AfterDrawTheCubeWithin(MaxEvents, MaxScenes, DrawTheCube(win, legend))

PointerDown ==
  \E x \in Coords, y \in Coords :
    LET H(i) == OnPointerDown(scenes[i], x, y)
    IN  /\ DispatchedAt(MaxEvents, "pointerdown", x, y, FALSE, Tab(H, 1, Len(scenes)))
        /\ UNCHANGED legend

PointerUp ==
  LET H(i) == OnPointerUp(scenes[i])
  IN  Deliver("pointerup", H) /\ UNCHANGED legend

PointerLeave ==
  LET H(i) == OnPointerLeave(scenes[i])
  IN  Deliver("pointerleave", H) /\ UNCHANGED legend

PointerMove ==
  \E x \in Coords, y \in Coords, shiftKey \in BOOLEAN :
    LET H(i) == OnPointerMove(scenes[i], x, y, shiftKey)
    IN  /\ DispatchedAt(MaxEvents, "pointermove", x, y, shiftKey, Tab(H, 1, Len(scenes)))
        /\ UNCHANGED legend

Wheel ==
  \E deltaY \in {-1, 1} :
    LET H(i) == OnWheel(scenes[i], deltaY)
    IN  Deliver("wheel", H) /\ UNCHANGED legend

KeyDown ==
  \E key \in Keys :
    LET H(i) == OnKeyDown(scenes[i], key)
    IN  Deliver("keydown", H) /\ UNCHANGED legend

KeyUp ==
  \E key \in Keys :
    LET H(i) == OnKeyUp(scenes[i], key)
    IN  Deliver("keyup", H) /\ UNCHANGED legend

\* The user flips the toggleLegend checkbox: its change listeners run.
LegendToggle ==
  LET H(i) == OnLegendChange(scenes[i], ~legend.checked)
  IN  /\ legend.present
      /\ legend' = [legend EXCEPT !.checked = ~legend.checked]
      /\ Deliver("legend", H)

Next ==
  \/ DrawTheCubeCall
  \/ PointerDown
  \/ PointerUp
  \/ PointerLeave
  \/ PointerMove
  \/ Wheel
  \/ KeyDown
  \/ KeyUp
  \/ LegendToggle

Spec == Init /\ [][Next]_vars

(***************************************************************************)
(* Specification SpecWheel: the page after a successful drawTheCube,       *)
(* receiving wheel events only.                                            *)
(***************************************************************************)
\* Bound of the model: wheel events dispatched.
MaxNotches == 17

PageReady == [canvas |-> TRUE, ctx |-> TRUE, width |-> 800, height |-> 600]

NoLegend == [present |-> FALSE, checked |-> TRUE]

InitWheel ==
  /\ win = PageReady
  /\ legend = NoLegend
  /\ scenes = DrawTheCube(PageReady, NoLegend).created
  /\ frame = [scene |-> 1, calls |-> Render(NewScene(PageReady, NoLegend)).calls]
  /\ log = << >>
  /\ last = [event |-> "drawTheCube", x |-> 0, y |-> 0, shiftKey |-> FALSE,
             renders |-> << 1 >>]
  /\ events = 0
  /\ Idle

WheelNotch ==
  \E deltaY \in {-1, 1} :
    LET H(i) == OnWheel(scenes[i], deltaY)
    IN  DeliverWithin(MaxNotches, "wheel", H) /\ UNCHANGED legend

SpecWheel == InitWheel /\ [][WheelNotch]_vars

(***************************************************************************)
(* Specification SpecCamera: a CameraEye and a ScreenSpace driven through  *)
(* their public operations; tout records the last projectNorm or toPixels  *)
(* call with the camera and screen it ran on.                              *)
(***************************************************************************)
\* Bound of the model: camera and zoom operations applied.
MaxCamSteps == 2

\* World points handed to projectNorm (tenths of a unit): on the near and
\* far planes, on the view axis, off axis, behind the camera, far to the
\* side, at no distance at all.
TestPoints ==
  {V3(0, 0, Near), V3(0, 0, Far), V3(0, 0, 500), V3(200, 100, 500),
   V3(0, 0, -300), V3(3000, 0, 500), V3(0, 0, 0)}

\* Normalized points handed to toPixels (thousandths).
TestNorms == {P2(x, y) : x \in {-1000, 0, 500}, y \in {-1000, 0, 500}}

\* The zoom levels up to two wheel notches away from 1.
TestZooms ==
  LET Notch(S) == S \cup {MulQ(z, f) : z \in S, f \in {ZoomIn, ZoomOut}}
  IN  Notch(Notch({1000}))

PitchSteps == {CameraRotationSpeed, -CameraRotationSpeed, HalfPiC, -HalfPiC}

Distances == {CameraMovementSpeed, -CameraMovementSpeed}

PageIdle ==
  /\ win = PageReady
  /\ legend = NoLegend
  /\ scenes = << >>
  /\ frame = NoFrame
  /\ log = << >>
  /\ last = NoEvent

NoCall ==
  [op |-> "none", cam |-> NewCamera, scr |-> IdleScreen, arg |-> V3(0, 0, 0),
   norm |-> P2(0, 0), result |-> Null, pixel |-> P2(0, 0)]

InitCamera ==
  /\ PageIdle
  /\ events = 0
  /\ tfig = IdleFigure
  /\ tcam = NewCamera
  /\ \E size \in {<<800, 600>>, <<600, 800>>} : tscr = NewScreen(size[1], size[2])
  /\ tout = NoCall

CamStep(cam) ==
  /\ events < MaxCamSteps
  /\ events' = events + 1
  /\ tcam' = cam
  /\ UNCHANGED <<win, legend, scenes, frame, log, last, tfig, tscr, tout>>

CamRotateYaw == \E angle \in {CameraRotationSpeed, -CameraRotationSpeed} : CamStep(RotateYaw(tcam, angle))

CamRotatePitch == \E angle \in PitchSteps : CamStep(RotatePitch(tcam, angle))

CamMoveForward == \E distance \in Distances : CamStep(MoveForward(tcam, distance))

CamMoveSideways == \E distance \in Distances : CamStep(MoveSideways(tcam, distance))

\* screen.zoom *= factor.
ScrZoom ==
  \E factor \in {ZoomIn, ZoomOut} :
    /\ events < MaxCamSteps
    /\ events' = events + 1
    /\ tscr' = [tscr EXCEPT !.zoom = MulQ(tscr.zoom, factor)]
    /\ UNCHANGED <<win, legend, scenes, frame, log, last, tfig, tcam, tout>>

Called(call) ==
  /\ tout' = call
  /\ UNCHANGED <<win, legend, scenes, frame, log, last, events, tfig, tcam, tscr>>

Projected(v) ==
  Called([NoCall EXCEPT !.op = "projectNorm", !.cam = tcam, !.scr = tscr,
                        !.arg = v, !.result = ProjectNorm(tcam, tscr, v)])

\* projectNorm of a test point, placed from the world origin or from where
\* the camera stands.
CamProject ==
  \E v \in TestPoints, o \in {V3(0, 0, 0), tcam.position} :
    Projected(V3(v.x + o.x, v.y + o.y, v.z + o.z))

ScrToPixels ==
  \E n \in TestNorms :
    Called([NoCall EXCEPT !.op = "toPixels", !.cam = tcam, !.scr = tscr,
                          !.norm = n, !.pixel = ToPixels(tscr, n)])

NextCamera ==
  \/ CamRotateYaw
  \/ CamRotatePitch
  \/ CamMoveForward
  \/ CamMoveSideways
  \/ ScrZoom
  \/ CamProject
  \/ ScrToPixels

SpecCamera == InitCamera /\ [][NextCamera]_vars

(***************************************************************************)
(* Specification SpecFigure: a figure moved and rotated through its        *)
(* mutators and drawn, with a second figure after it, by renderEyeView.    *)
(* The figure is a Cube, or a Cube whose edge or face list holds an index  *)
(* outside its vertex array.                                               *)
(***************************************************************************)
\* Bound of the model: move and rotate calls applied.
MaxFigSteps == 2

TestCube == NewCube(120, 0, 0, 400)

Companion == Upright(NewCube(80, -200, 0, 300))

TestFigures ==
  {TestCube,
   [TestCube EXCEPT !.edges = << <<0, 8>> >> \o @],
   [TestCube EXCEPT !.faces = << <<0, 1, 2, 8>> >> \o @],
   [TestCube EXCEPT !.edges = << <<0, 1>>, <<9, 1>>, <<1, 2>> >>,
                    !.faces = << <<0, 1, 2, 3>>, <<4, 5, 6, 17>> >>]}

Deltas == {-MoveSpeed, MoveSpeed}

Angles == {-30, 0, 30}

NoPass == [op |-> "none", world |-> << >>, calls |-> << >>, threw |-> FALSE]

InitFigure ==
  /\ PageIdle
  /\ events = 0
  /\ tfig \in TestFigures
  /\ tcam = [NewCamera EXCEPT !.position = V3(0, 0, -50)]
  /\ tscr = IdleScreen
  /\ tout = NoPass

FigStep(fig) ==
  /\ events < MaxFigSteps
  /\ events' = events + 1
  /\ tfig' = fig
  /\ UNCHANGED <<win, legend, scenes, frame, log, last, tcam, tscr, tout>>

FigMove == \E dx \in Deltas, dy \in Deltas, dz \in {0, MoveSpeed} : FigStep(Move(tfig, dx, dy, dz))

FigRotate == \E dYaw \in Angles, dPitch \in Angles : FigStep(Rotate(tfig, dYaw, dPitch))

Passed(world, pass) ==
  /\ tout' = [op |-> "render", world |-> world, calls |-> pass.calls, threw |-> pass.threw]
  /\ UNCHANGED <<win, legend, scenes, frame, log, last, events, tfig, tcam, tscr>>

FigDraw == Passed(<< tfig, Companion >>, RenderEyeView(tscr, tcam, << tfig, Companion >>))

NextFigure ==
  \/ FigMove
  \/ FigRotate
  \/ FigDraw

SpecFigure == InitFigure /\ [][NextFigure]_vars

(***************************************************************************)
(* Specification SpecRoundTrip: a figure receiving move and rotate calls,  *)
(* each of which may be followed by the call with the negated arguments.   *)
(* tout remembers the call that may be undone: the figure before it and    *)
(* its arguments.                                                          *)
(***************************************************************************)
\* Bound of the model: move and rotate calls applied (an undoing call not
\* counted).
MaxTripSteps == 2

NoTrip == [op |-> "none", before |-> IdleFigure, args |-> << >>]

InitRoundTrip ==
  /\ PageIdle
  /\ events = 0
  /\ tfig \in {TestCube, Upright(TestCube)}
  /\ tcam = NewCamera
  /\ tscr = IdleScreen
  /\ tout = NoTrip

Tripped(fig, call) ==
  /\ tfig' = fig
  /\ tout' = call
  /\ UNCHANGED <<win, legend, scenes, frame, log, last, tcam, tscr>>

\* figure.move(dx, dy, dz)
TripMove ==
  \E dx \in Deltas, dy \in {0, MoveSpeed}, dz \in {0, -MoveSpeed} :
    /\ events < MaxTripSteps
    /\ events' = events + 1
    /\ Tripped(Move(tfig, dx, dy, dz),
               [op |-> "move", before |-> tfig, args |-> <<dx, dy, dz>>])

\* figure.move(-dx, -dy, -dz) right after figure.move(dx, dy, dz)
TripMoveBack ==
  /\ tout.op = "move"
  /\ UNCHANGED events
  /\ Tripped(Move(tfig, -tout.args[1], -tout.args[2], -tout.args[3]),
             [tout EXCEPT !.op = "moved back"])

\* figure.rotate(dYaw, dPitch)
TripRotate ==
  \E dYaw \in Angles, dPitch \in Angles :
    /\ events < MaxTripSteps
    /\ events' = events + 1
    /\ Tripped(Rotate(tfig, dYaw, dPitch),
               [op |-> "rotate", before |-> tfig, args |-> <<dYaw, dPitch>>])

\* figure.rotate(-dYaw, -dPitch) right after figure.rotate(dYaw, dPitch)
TripRotateBack ==
  /\ tout.op = "rotate"
  /\ UNCHANGED events
  /\ Tripped(Rotate(tfig, -tout.args[1], -tout.args[2]),
             [tout EXCEPT !.op = "rotated back"])

NextRoundTrip ==
  \/ TripMove
  \/ TripMoveBack
  \/ TripRotate
  \/ TripRotateBack

SpecRoundTrip == InitRoundTrip /\ [][NextRoundTrip]_vars

(***************************************************************************)
(* Specification SpecWorldSpace: WorldSpace.rotateY and rotateX applied to *)
(* points and pivots, alone or to the result of the call before about the  *)
(* same pivot.  tout is the last call: its arguments and result and, when  *)
(* it continued another call, that call's operation, point and angle.      *)
(***************************************************************************)
\* Points and pivots (tenths of a unit) and angles (centiradians).
WsPivots == {V3(0, 0, 0), V3(100, -200, 4000)}

WsPoints == WsPivots \cup {V3(600, 600, 3400), V3(-370, 10, 250)}

WsAngles == {-HalfPiC, -30, -1, 0, 1, 30, CubeYaw0, HalfPiC, PiC}

NoRotation ==
  [op |-> "none", p |-> V3(0, 0, 0), c |-> V3(0, 0, 0), angle |-> 0,
   result |-> V3(0, 0, 0), chained |-> FALSE,
   op0 |-> "none", p0 |-> V3(0, 0, 0), angle0 |-> 0]

InitWorldSpace ==
  /\ PageIdle
  /\ events = 0
  /\ tfig = IdleFigure
  /\ tcam = NewCamera
  /\ tscr = IdleScreen
  /\ tout = NoRotation

WsCalled(call) ==
  /\ tout' = call
  /\ UNCHANGED <<win, legend, scenes, frame, log, last, events, tfig, tcam, tscr>>

WsFirst(op, p, c, angle, result) ==
  WsCalled([NoRotation EXCEPT !.op = op, !.p = p, !.c = c, !.angle = angle,
                              !.result = result])

WsSecond(op, angle, result) ==
  /\ tout.op # "none"
  /\ ~tout.chained
  /\ WsCalled([op |-> op, p |-> tout.result, c |-> tout.c, angle |-> angle,
               result |-> result, chained |-> TRUE,
               op0 |-> tout.op, p0 |-> tout.p, angle0 |-> tout.angle])

\* WorldSpace.rotateY(p, c, angle)
WsRotateY ==
  \E p \in WsPoints, c \in WsPivots, angle \in WsAngles :
    WsFirst("rotateY", p, c, angle, RotateY(p, c, angle))

\* WorldSpace.rotateX(p, c, angle)
WsRotateX ==
  \E p \in WsPoints, c \in WsPivots, angle \in WsAngles :
    WsFirst("rotateX", p, c, angle, RotateX(p, c, angle))

\* WorldSpace.rotateY(r, c, angle), r the result of the call before
WsThenRotateY ==
  \E angle \in WsAngles :
    WsSecond("rotateY", angle, RotateY(tout.result, tout.c, angle))

\* WorldSpace.rotateX(r, c, angle), r the result of the call before
WsThenRotateX ==
  \E angle \in WsAngles :
    WsSecond("rotateX", angle, RotateX(tout.result, tout.c, angle))

NextWorldSpace ==
  \/ WsRotateY
  \/ WsRotateX
  \/ WsThenRotateY
  \/ WsThenRotateX

SpecWorldSpace == InitWorldSpace /\ [][NextWorldSpace]_vars

(***************************************************************************)
(* Specification SpecCubeView: the cube of edge 120 at (0, 0, 400), set    *)
(* upright, alone in the world and seen by a new camera at the origin on   *)
(* an 800 x 600 screen at zoom 1; the cube is rotated about its center and *)
(* the scene rendered.  tout is the last render pass.                      *)
(***************************************************************************)
\* Bound of the model: rotate calls applied.
MaxViewSteps == 2

\* Quarter turns (Math.PI / 2) and the small turns of a drag.
ViewYaws == {-HalfPiC, -30, 0, 30, HalfPiC}

ViewPitches == {-30, 0, 30}

InitCubeView ==
  /\ PageIdle
  /\ events = 0
  /\ tfig = Upright(NewCube(120, 0, 0, 400))
  /\ tcam = NewCamera
  /\ tscr = NewScreen(800, 600)
  /\ tout = NoPass

\* cube.rotate(dYaw, dPitch)
ViewRotate ==
  \E dYaw \in ViewYaws, dPitch \in ViewPitches :
    /\ events < MaxViewSteps
    /\ events' = events + 1
    /\ tfig' = Rotate(tfig, dYaw, dPitch)
    /\ UNCHANGED <<win, legend, scenes, frame, log, last, tcam, tscr, tout>>

\* screen.renderEyeView(camera) with the cube as the only figure
ViewDraw == Passed(<< tfig >>, RenderEyeView(tscr, tcam, << tfig >>))

NextCubeView ==
  \/ ViewRotate
  \/ ViewDraw

SpecCubeView == InitCubeView /\ [][NextCubeView]_vars

(***************************************************************************)
(* Specification SpecMarkers: one cube, large or small, alone in the world *)
(* and seen by a new camera at the origin; it is rotated about its center  *)
(* and rendered as in SpecCubeView.  The cubes are new Cube(120, 0, 0,     *)
(* 400) set upright and new Cube(0.4, 0, 0, 40), as constructed and set    *)
(* upright: the small cube lies within one world unit of depth.            *)
(***************************************************************************)
InitMarkers ==
  /\ PageIdle
  /\ events = 0
  /\ tfig \in {Upright(NewCube(120, 0, 0, 400)), CubeOfEdge(4, 0, 0, 40),
               Upright(CubeOfEdge(4, 0, 0, 40))}
  /\ tcam = NewCamera
  /\ tscr = NewScreen(800, 600)
  /\ tout = NoPass

SpecMarkers == InitMarkers /\ [][NextCubeView]_vars

(***************************************************************************)
(* Specification SpecClicks: the page after the page-load drawTheCube,     *)
(* with clicks on "Draw the Cube" between the input events.  Each          *)
(* successful drawTheCube adds a controller whose listeners stay on the    *)
(* canvas and the document.                                                *)
(***************************************************************************)
\* Bound of the model: clicks on "Draw the Cube" after the page load.
MaxClicks == 1

\* Bound of the model: events dispatched, clicks included.
MaxClickEvents == 2

\* drawButton's click listener
ClickDrawTheCube ==
  AfterDrawTheCubeWithin(MaxClickEvents, MaxClicks + 1, DrawTheCube(win, legend))

ClickPointerDown ==
  \E x \in Coords, y \in Coords :
    LET H(i) == OnPointerDown(scenes[i], x, y)
    IN  DeliverWithin(MaxClickEvents, "pointerdown", H) /\ UNCHANGED legend

ClickPointerMove ==
  \E x \in Coords, y \in Coords :
    LET H(i) == OnPointerMove(scenes[i], x, y, FALSE)
    IN  DeliverWithin(MaxClickEvents, "pointermove", H) /\ UNCHANGED legend

ClickWheel ==
  \E deltaY \in {-1, 1} :
    LET H(i) == OnWheel(scenes[i], deltaY)
    IN  DeliverWithin(MaxClickEvents, "wheel", H) /\ UNCHANGED legend

ClickKeyDown ==
  \E key \in Keys :
    LET H(i) == OnKeyDown(scenes[i], key)
    IN  DeliverWithin(MaxClickEvents, "keydown", H) /\ UNCHANGED legend

ClickKeyUp ==
  \E key \in Keys :
    LET H(i) == OnKeyUp(scenes[i], key)
    IN  DeliverWithin(MaxClickEvents, "keyup", H) /\ UNCHANGED legend

NextClicks ==
  \/ ClickDrawTheCube
  \/ ClickPointerDown
  \/ ClickPointerMove
  \/ ClickWheel
  \/ ClickKeyDown
  \/ ClickKeyUp

SpecClicks == InitWheel /\ [][NextClicks]_vars

(***************************************************************************)
(* Specification SpecDrag: the page after a successful drawTheCube,        *)
(* receiving pointer events only; last holds the clientX, clientY and      *)
(* shiftKey of the event dispatched.                                       *)
(***************************************************************************)
\* Bound of the model: pointer events dispatched.
MaxDragEvents == 3

\* e.clientX and e.clientY of the pointer events.
DragPoints == {0, 1, 3} \X {0, 1}

DragDown ==
  \E p \in DragPoints :
    LET H(i) == OnPointerDown(scenes[i], p[1], p[2])
    IN  /\ DispatchedAt(MaxDragEvents, "pointerdown", p[1], p[2], FALSE,
                        Tab(H, 1, Len(scenes)))
        /\ UNCHANGED legend

DragUp ==
  LET H(i) == OnPointerUp(scenes[i])
  IN  DeliverWithin(MaxDragEvents, "pointerup", H) /\ UNCHANGED legend

DragLeave ==
  LET H(i) == OnPointerLeave(scenes[i])
  IN  DeliverWithin(MaxDragEvents, "pointerleave", H) /\ UNCHANGED legend

DragMove ==
  \E p \in DragPoints, shiftKey \in BOOLEAN :
    LET H(i) == OnPointerMove(scenes[i], p[1], p[2], shiftKey)
    IN  /\ DispatchedAt(MaxDragEvents, "pointermove", p[1], p[2], shiftKey,
                        Tab(H, 1, Len(scenes)))
        /\ UNCHANGED legend

NextDrag ==
  \/ DragDown
  \/ DragUp
  \/ DragLeave
  \/ DragMove

SpecDrag == InitWheel /\ [][NextDrag]_vars

(***************************************************************************)
(* Properties                                                              *)
(***************************************************************************)
\* C1: after construction and after any sequence of move and rotate calls,
\* every stored vertex equals rotateX(rotateY(base[i], center, yaw), center,
\* pitch) + position for the figure's current yaw, pitch and position:
\* vertices is a function of (base, center, yaw, pitch, position) alone.
C1_VerticesFromBase ==
  /\ Len(tfig.vertices) = Len(tfig.base)
  /\ \A i \in 1..Len(tfig.base) :
       LET r == RotateX(RotateY(tfig.base[i], tfig.center, tfig.yaw),
                        tfig.center, tfig.pitch)
       IN  tfig.vertices[i] = V3(r.x + tfig.position.x, r.y + tfig.position.y,
                                 r.z + tfig.position.z)

\* A figure that has been both moved and rotated since its construction.
C1_Witness ==
  /\ events >= 2
  /\ tfig.position # TestCube.position
  /\ tfig.yaw # CubeYaw0
  /\ tfig.pitch # CubePitch0
  /\ tfig.vertices # TestCube.vertices

\* C2: projectNorm returns null for every point whose camera-relative depth
\* (its coordinate along the view axis of the camera turned by its yaw, the
\* depth projectNorm returns as distance) is <= near or >= far.
C2_NullOutsideDepthRange ==
  tout.op = "projectNorm" =>
    LET dx == tout.arg.x - tout.cam.position.x
        dz == tout.arg.z - tout.cam.position.z
        depth == MulQ(dz, Cos(tout.cam.orientation.yaw))
                   - MulQ(dx, Sin(tout.cam.orientation.yaw))
    IN  (depth <= tout.cam.near \/ depth >= tout.cam.far) => ~tout.result.ok

\* A point on the view axis exactly on the near plane was projected, by a
\* camera that has moved, and came back null.
C2_Witness ==
  /\ tout.op = "projectNorm"
  /\ tout.cam.position # NewCamera.position
  /\ tout.arg.x = tout.cam.position.x
  /\ tout.arg.y = tout.cam.position.y
  /\ tout.cam.orientation.yaw = 0
  /\ tout.arg.z - tout.cam.position.z = tout.cam.near
  /\ ~tout.result.ok

\* C3: each base vertex is first rotated about the Y axis by yaw around
\* center, the result is rotated about the X axis by pitch around the same
\* center, and the result of that is translated by position.
C3_YawThenPitchThenTranslate ==
  \A i \in 1..Len(tfig.base) :
    LET tx == tfig.base[i].x - tfig.center.x
        ty == tfig.base[i].y - tfig.center.y
        tz == tfig.base[i].z - tfig.center.z
        \* about Y by yaw
        x1 == MulQ(tx, Cos(tfig.yaw)) - MulQ(tz, Sin(tfig.yaw))
        z1 == MulQ(tx, Sin(tfig.yaw)) + MulQ(tz, Cos(tfig.yaw))
        \* then about X by pitch
        y2 == MulQ(ty, Cos(tfig.pitch)) - MulQ(z1, Sin(tfig.pitch))
        z2 == MulQ(ty, Sin(tfig.pitch)) + MulQ(z1, Cos(tfig.pitch))
    IN  /\ tfig.vertices[i].x = x1 + tfig.center.x + tfig.position.x
        /\ tfig.vertices[i].y = y2 + tfig.center.y + tfig.position.y
        /\ tfig.vertices[i].z = z2 + tfig.center.z + tfig.position.z

\* A rotated figure with yaw and pitch both non-zero, one of whose vertices
\* is not where the pitch-then-yaw composition would put it.
C3_Witness ==
  /\ events > 0
  /\ tfig.yaw # 0
  /\ tfig.pitch # 0
  /\ tfig.yaw # CubeYaw0
  /\ \E i \in 1..Len(tfig.base) :
       LET r == RotateY(RotateX(tfig.base[i], tfig.center, tfig.pitch),
                        tfig.center, tfig.yaw)
       IN  tfig.vertices[i] # V3(r.x + tfig.position.x, r.y + tfig.position.y,
                                 r.z + tfig.position.z)

\* C4 (as the code has it): toPixels maps (nx, ny) to
\* x = width/2 + nx * (width/2) * zoom and y = height/2 - ny * (height/2) * zoom:
\* each axis is scaled by its own half extent.
C4_ToPixelsPerAxis ==
  tout.op = "toPixels" =>
    /\ tout.pixel.x = tout.scr.width * 500
                        + MulQ(MulQ(tout.scr.width * 500, tout.norm.x), tout.scr.zoom)
    /\ tout.pixel.y = tout.scr.height * 500
                        - MulQ(MulQ(tout.scr.height * 500, tout.norm.y), tout.scr.zoom)

\* toPixels ran on a screen that is not square and has been zoomed, for a
\* point off both axes.
C4_Witness ==
  /\ tout.op = "toPixels"
  /\ tout.scr.width # tout.scr.height
  /\ tout.scr.zoom # 1000
  /\ tout.norm.x # 0
  /\ tout.norm.y # 0

\* C4 (as stated): toPixels maps (nx, ny) to x = width/2 + nx * (height/2) * zoom
\* and y = height/2 - ny * (height/2) * zoom, the scale height/2 on both axes
\* (to within two thousandths of a pixel of rounding).
C4_UniformHeightScale ==
  tout.op = "toPixels" =>
    /\ Abs(tout.pixel.x - (tout.scr.width * 500
          + MulQ(MulQ(tout.scr.height * 500, tout.norm.x), tout.scr.zoom))) <= 2
    /\ Abs(tout.pixel.y - (tout.scr.height * 500
          - MulQ(MulQ(tout.scr.height * 500, tout.norm.y), tout.scr.zoom))) <= 2

\* C5: the result of projectNorm depends on the camera's pitch: for a camera
\* pitched up or down, a point straight ahead of it in its horizontal plane
\* (on the yaw axis, at the camera's height, between near and far) is not
\* seen at the vertical centre of the view.
C5_PitchTiltsView ==
  (/\ tout.op = "projectNorm"
   /\ tout.cam.orientation.pitch # 0
   /\ tout.cam.orientation.yaw = 0
   /\ tout.arg.x = tout.cam.position.x
   /\ tout.arg.y = tout.cam.position.y
   /\ tout.arg.z - tout.cam.position.z > tout.cam.near
   /\ tout.arg.z - tout.cam.position.z < tout.cam.far)
  => ~(tout.result.ok /\ tout.result.y = 0)

\* C6: in the render the canvas shows, a line is drawn for edge (a, b) of a
\* figure exactly when both a and b projected to a non-null result; an edge
\* with a non-visible endpoint produces no call and the other edges are
\* still drawn, each once, between the pixels of their endpoints.
C6_EdgeDrawnIffBothVisible ==
  frame.scene # 0 =>
    LET sc == scenes[frame.scene]
        Visible(fig, idx) ==
          /\ idx >= 0
          /\ idx < Len(fig.vertices)
          /\ ProjectNorm(sc.camera, sc.screen, fig.vertices[idx + 1]).ok
        Pix(fig, idx) ==
          ToPixels(sc.screen, ProjectNorm(sc.camera, sc.screen, fig.vertices[idx + 1]))
        Lines(k, e) ==
          {c \in 1..Len(frame.calls) :
             /\ frame.calls[c].op = "line"
             /\ frame.calls[c].fig = k
             /\ frame.calls[c].id = e}
    IN  \A k \in 1..Len(sc.world) :
          \A n \in 1..Len(sc.world[k].edges) :
            LET fig == sc.world[k]
                e == fig.edges[n]
            IN  IF Visible(fig, e[1]) /\ Visible(fig, e[2])
                THEN /\ Cardinality(Lines(k, e)) = 1
                     /\ \A c \in Lines(k, e) :
                          frame.calls[c].pts = << Pix(fig, e[1]), Pix(fig, e[2]) >>
                ELSE Lines(k, e) = {}

\* A render in which an edge of a figure was skipped, one endpoint visible
\* and the other not, and a later edge of the same figure was drawn.
C6_Witness ==
  /\ frame.scene # 0
  /\ \E k \in 1..Len(scenes[frame.scene].world) :
       LET sc == scenes[frame.scene]
           fig == sc.world[k]
           Ok(idx) == ProjectNorm(sc.camera, sc.screen, fig.vertices[idx + 1]).ok
           Drawn(e) == \E c \in 1..Len(frame.calls) :
                         /\ frame.calls[c].op = "line"
                         /\ frame.calls[c].fig = k
                         /\ frame.calls[c].id = e
       IN  \E n \in 1..Len(fig.edges), m \in 1..Len(fig.edges) :
             /\ n < m
             /\ Ok(fig.edges[n][1])
             /\ ~Ok(fig.edges[n][2])
             /\ ~Drawn(fig.edges[n])
             /\ Drawn(fig.edges[m])

\* C7: for a figure with an edge or a face holding a vertex index outside
\* [0, vertexCount), the render walk does not throw, and apart from the
\* offending primitive everything is drawn: the marker of every visible
\* vertex and the line of every edge with two visible endpoints, of that
\* figure and of the later ones.
C7_MalformedTopologySkipped ==
  tout.op = "render" =>
    LET Ok(fig, idx) ==
          /\ idx >= 0
          /\ idx < Len(fig.vertices)
          /\ ProjectNorm(tcam, tscr, fig.vertices[idx + 1]).ok
        Has(op, k, id) ==
          \E c \in 1..Len(tout.calls) :
            /\ tout.calls[c].op = op
            /\ tout.calls[c].fig = k
            /\ tout.calls[c].id = id
    IN  /\ ~tout.threw
        /\ \A k \in 1..Len(tout.world) :
             /\ \A i \in 1..Len(tout.world[k].vertices) :
                  Ok(tout.world[k], i - 1) => Has("dot", k, << i - 1 >>)
             /\ \A n \in 1..Len(tout.world[k].edges) :
                  LET e == tout.world[k].edges[n]
                  IN  Ok(tout.world[k], e[1]) /\ Ok(tout.world[k], e[2])
                        => Has("line", k, e)

\* C8: a handler of an installed controller that mutates figure, camera or
\* screen state (pointermove while dragging, wheel, keydown, keyup, legend
\* toggle) renders exactly once, and the render shows the state it leaves;
\* a pointermove while not dragging changes nothing and renders nothing.
C8_OneRenderAfterMutation ==
  [][(events' = events + 1 /\ last'.event # "drawTheCube") =>
       \A i \in 1..Len(scenes) :
         LET before == scenes[i]
             after == scenes'[i]
             passes == last'.renders[i]
             mutated == \/ after.world # before.world
                        \/ after.camera # before.camera
                        \/ after.screen # before.screen
         IN  /\ mutated => passes = 1
             /\ last'.event \in {"wheel", "keydown", "keyup"} => passes = 1
             /\ last'.event = "legend" /\ before.legendListener => passes = 1
             /\ last'.event = "pointermove" /\ before.dragging => passes = 1
             /\ last'.event = "pointermove" /\ ~before.dragging =>
                  passes = 0 /\ after = before
             /\ (passes = 1 /\ \A j \in (i + 1)..Len(scenes) : last'.renders[j] = 0) =>
                  frame' = [scene |-> i, calls |-> Render(after).calls]
    ]_vars

\* A pointermove during a drag has just been handled: the first cube changed
\* and the controller rendered once.
C8_Witness ==
  /\ last.event = "pointermove"
  /\ \E i \in 1..Len(scenes) :
       /\ last.renders[i] = 1
       /\ scenes[i].dragging
       /\ scenes[i].world[1] # Upright(NewCube(120, 0, 0, 400))

\* C9: after any sequence of wheel events starting from zoom = 1, the zoom
\* of the screen is within [0.2, 5].
C9_ZoomWithinRange ==
  \A i \in 1..Len(scenes) :
    scenes[i].screen.zoom >= 200 /\ scenes[i].screen.zoom <= 5000

\* C10: with the canvas or its 2D context absent, a drawTheCube call reports
\* the condition, and nothing is created, drawn or installed: no scene (world,
\* camera, screen and listeners) exists and the canvas shows no draw call.
C10_NoPartialDraw ==
  (~win.canvas \/ ~win.ctx) =>
    /\ scenes = << >>
    /\ frame = NoFrame
    /\ last.event = "drawTheCube" =>
         /\ last.renders = << >>
         /\ Len(log) = events
         /\ log[Len(log)] = IF ~win.canvas THEN "Canvas not found"
                            ELSE "Canvas context not found"

\* drawTheCube was called on a page whose canvas exists without a context.
C10_Witness ==
  /\ win.canvas
  /\ ~win.ctx
  /\ last.event = "drawTheCube"
  /\ log # << >>

C13_InverseWithinTolerance ==
  (tout.chained /\ tout.op = tout.op0 /\ tout.angle = -tout.angle0) =>
    /\ Abs(tout.result.x - tout.p0.x) <= 2
    /\ Abs(tout.result.y - tout.p0.y) <= 2
    /\ Abs(tout.result.z - tout.p0.z) <= 2
    /\ tout.op = "rotateY" => tout.result.y = tout.p0.y
    /\ tout.op = "rotateX" => tout.result.x = tout.p0.x

\* A point off the pivot, not at the origin, was turned by a non-zero angle
\* and turned back.
C13_Witness ==
  /\ tout.chained
  /\ tout.op = tout.op0
  /\ tout.angle = -tout.angle0
  /\ tout.angle # 0
  /\ tout.p0 # tout.c
  /\ tout.c # V3(0, 0, 0)
  /\ tout.p # tout.p0

\* C13 (as stated): rotating by an angle and then by its negation about the
\* same pivot is the identity, rotateY(rotateY(p, c, a), c, -a) = p and
\* likewise for rotateX.
C13_InverseExact ==
  (tout.chained /\ tout.op = tout.op0 /\ tout.angle = -tout.angle0) =>
    tout.result = tout.p0

\* C14: rotateX(rotateY(c, c, yaw), c, pitch) = c for every pivot c and all
\* angles: the pivot is a fixed point of the yaw-then-pitch rotation about it.
C14_PivotFixed ==
  (/\ tout.chained
   /\ tout.op0 = "rotateY"
   /\ tout.op = "rotateX"
   /\ tout.p0 = tout.c)
  => tout.result = tout.c

\* A pivot away from the origin was turned about itself by a non-zero yaw
\* and then by a non-zero pitch.
C14_Witness ==
  /\ tout.chained
  /\ tout.op0 = "rotateY"
  /\ tout.op = "rotateX"
  /\ tout.p0 = tout.c
  /\ tout.c # V3(0, 0, 0)
  /\ tout.angle0 # 0
  /\ tout.angle # 0
  /\ tout.result = tout.c

\* C15: a vertex exactly at the camera position is rejected by projectNorm
\* (null result) whatever the camera's position, yaw and pitch, and drawFigure
\* keeps null for it without calling toPixels: no value of a division by
\* zero reaches toPixels or a drawing primitive.
C15_VertexAtCameraRejected ==
  (tout.op = "projectNorm" /\ tout.arg = tout.cam.position) =>
    /\ ~tout.result.ok
    /\ PvEntry(tout.scr, tout.result) = PvNull

\* The camera's own position was projected after the camera had moved and
\* turned.
C15_Witness ==
  /\ tout.op = "projectNorm"
  /\ tout.arg = tout.cam.position
  /\ tout.cam.position # NewCamera.position
  /\ tout.cam.orientation # NewCamera.orientation
  /\ ~tout.result.ok

\* C16: for a fixed screen size and a normalized point other than (0, 0),
\* a larger zoom puts the pixel strictly farther from the screen centre
\* (width/2, height/2): neither pixel offset from the centre shrinks and one
\* of them grows; the point (0, 0) maps to the centre at every zoom.
C16_ZoomSpreadsFromCentre ==
  tout.op = "toPixels" =>
    LET centre == P2(tout.scr.width * 500, tout.scr.height * 500)
        OffX(zoom) == Abs(ToPixels([tout.scr EXCEPT !.zoom = zoom], tout.norm).x - centre.x)
        OffY(zoom) == Abs(ToPixels([tout.scr EXCEPT !.zoom = zoom], tout.norm).y - centre.y)
        Spread(zoom1, zoom2) ==
          /\ OffX(zoom2) >= OffX(zoom1)
          /\ OffY(zoom2) >= OffY(zoom1)
          /\ OffX(zoom2) > OffX(zoom1) \/ OffY(zoom2) > OffY(zoom1)
    IN  /\ tout.pixel = ToPixels(tout.scr, tout.norm)
        /\ tout.norm = P2(0, 0) => tout.pixel = centre
        /\ tout.norm # P2(0, 0) =>
             \A zoom \in TestZooms :
               /\ (0 < tout.scr.zoom /\ tout.scr.zoom < zoom) => Spread(tout.scr.zoom, zoom)
               /\ (0 < zoom /\ zoom < tout.scr.zoom) => Spread(zoom, tout.scr.zoom)

\* toPixels ran for a point off the centre on a screen zoomed in once, with
\* smaller and larger zoom levels to compare with.
C16_Witness ==
  /\ tout.op = "toPixels"
  /\ tout.norm.x # 0
  /\ tout.norm.y = 0
  /\ tout.scr.zoom = ZoomIn
  /\ \E zoom1 \in TestZooms, zoom2 \in TestZooms :
       zoom1 < tout.scr.zoom /\ tout.scr.zoom < zoom2

\* C17: with the camera at (0, 0, 0) with no orientation, fovY 60 degrees,
\* near 0.1, far 1e6, an 800 x 600 screen at zoom 1, the cube of edge 120 at
\* (0, 0, 400) with yaw = pitch = 0 has all 8 vertices projected as visible,
\* and a render draws exactly 12 edge segments, one for each edge.
C17_UprightCubeFullyDrawn ==
  (/\ tout.op = "render"
   /\ tout.world[1].yaw = 0
   /\ tout.world[1].pitch = 0)
  => LET cube == tout.world[1]
         Lines == {c \in 1..Len(tout.calls) : tout.calls[c].op = "line"}
     IN  /\ tcam = [position |-> V3(0, 0, 0), orientation |-> [yaw |-> 0, pitch |-> 0],
                    fovY |-> 105, near |-> 1, far |-> 10000000]
         /\ tscr.width = 800 /\ tscr.height = 600 /\ tscr.zoom = 1000
         /\ cube.position = V3(0, 0, 4000)
         /\ Len(cube.vertices) = 8
         /\ \A i \in 1..8 : ProjectNorm(tcam, tscr, cube.vertices[i]).ok
         /\ ~tout.threw
         /\ Cardinality(Lines) = 12
         /\ Len(cube.edges) = 12
         /\ \A n \in 1..12 :
              Cardinality({c \in Lines : tout.calls[c].id = cube.edges[n]}) = 1

\* The upright cube has been rendered, before any rotation.
C17_Witness ==
  /\ tout.op = "render"
  /\ events = 0
  /\ tout.world[1].yaw = 0
  /\ tout.world[1].pitch = 0
  /\ tout.world[1].vertices[1] = V3(-600, -600, 4600)
  /\ \E c \in 1..Len(tout.calls) : tout.calls[c].op = "line"

\* C18: after the upright cube is rotated to yaw = 90 degrees about its own
\* center it still has 8 vertices, every edge index is valid, and all 12
\* edges are drawn: no edge is skipped.
C18_QuarterTurnKeepsEdges ==
  (/\ tout.op = "render"
   /\ tout.world[1].yaw = HalfPiC
   /\ tout.world[1].pitch = 0)
  => LET cube == tout.world[1]
         Lines == {c \in 1..Len(tout.calls) : tout.calls[c].op = "line"}
     IN  /\ Len(cube.vertices) = 8
         /\ \A n \in 1..Len(cube.edges) :
              \A k \in 1..2 : cube.edges[n][k] >= 0 /\ cube.edges[n][k] < 8
         /\ ~tout.threw
         /\ Len(cube.edges) = 12
         /\ Cardinality(Lines) = 12
         /\ \A n \in 1..12 :
              Cardinality({c \in Lines : tout.calls[c].id = cube.edges[n]}) = 1

\* The cube was turned by a quarter turn and rendered; the first edge is
\* drawn between other pixels than for the upright cube.
C18_Witness ==
  /\ tout.op = "render"
  /\ events = 1
  /\ tout.world[1].yaw = HalfPiC
  /\ tout.world[1].pitch = 0
  /\ \E c \in 1..Len(tout.calls) :
       /\ tout.calls[c].op = "line"
       /\ tout.calls[c].id = <<0, 1>>
       /\ tout.calls[c].pts #
            << ToPixels(tscr, ProjectNorm(tcam, tscr, V3(-600, -600, 4600))),
               ToPixels(tscr, ProjectNorm(tcam, tscr, V3(600, -600, 4600))) >>

\* C19: points whose normalized coordinates fall outside [-1, 1] are
\* rejected in one layer only: every non-null result of projectNorm has x
\* and y within [-1, 1], and in the render the canvas shows a vertex has its
\* marker, at the pixel toPixels gives for its projection, exactly when
\* projectNorm returned non-null for it, wherever that pixel lies.
C19_ClippedInProjectNormOnly ==
  frame.scene # 0 =>
    LET sc == scenes[frame.scene]
        Proj(k, i) == ProjectNorm(sc.camera, sc.screen, sc.world[k].vertices[i])
        Dots(k, i) ==
          {c \in 1..Len(frame.calls) :
             /\ frame.calls[c].op = "dot"
             /\ frame.calls[c].fig = k
             /\ frame.calls[c].id = << i - 1 >>}
    IN  \A k \in 1..Len(sc.world) :
          \A i \in 1..Len(sc.world[k].vertices) :
            IF Proj(k, i).ok
            THEN /\ Proj(k, i).x >= -1000 /\ Proj(k, i).x <= 1000
                 /\ Proj(k, i).y >= -1000 /\ Proj(k, i).y <= 1000
                 /\ Cardinality(Dots(k, i)) = 1
                 /\ \A c \in Dots(k, i) :
                      frame.calls[c].pts = << ToPixels(sc.screen, Proj(k, i)) >>
            ELSE Dots(k, i) = {}

\* A render on a zoomed screen in which one vertex between the near and far
\* planes was rejected for its normalized x, and another vertex has its
\* marker at a pixel to the right of the canvas.
C19_Witness ==
  /\ frame.scene # 0
  /\ LET sc == scenes[frame.scene]
     IN  /\ sc.screen.zoom > 1000
         /\ \E k \in 1..Len(sc.world) :
              \E i \in 1..Len(sc.world[k].vertices) :
                /\ RotatedZ(sc.camera, sc.world[k].vertices[i]) > sc.camera.near
                /\ RotatedZ(sc.camera, sc.world[k].vertices[i]) < sc.camera.far
                /\ ~ProjectNorm(sc.camera, sc.screen, sc.world[k].vertices[i]).ok
         /\ \E c \in 1..Len(frame.calls) :
              /\ frame.calls[c].op = "dot"
              /\ frame.calls[c].pts[1].x > sc.screen.width * 1000

\* C20: on a pointermove while dragging, with pixel delta (dx, dy) from the
\* last pointer position: with Shift held the first figure's position changes
\* by (dx * 1, -dy * 1, 0) units and its yaw and pitch stay; without Shift its
\* yaw changes by dx * 0.01 rad and its pitch by dy * 0.01 rad and its
\* position stays.  Either way the camera and screen.zoom are unchanged.
C20_DragMovesOrTurns ==
  [][(events' = events + 1 /\ last'.event = "pointermove") =>
       \A i \in 1..Len(scenes) :
         scenes[i].dragging =>
           LET dx == scenes'[i].lastX - scenes[i].lastX
               dy == scenes'[i].lastY - scenes[i].lastY
               cube == scenes[i].world[1]
               after == scenes'[i].world[1]
           IN  /\ last'.shiftKey =>
                    /\ after.position = V3(cube.position.x + dx * 10,
                                           cube.position.y - dy * 10,
                                           cube.position.z)
                    /\ after.yaw = cube.yaw
                    /\ after.pitch = cube.pitch
               /\ ~last'.shiftKey =>
                    /\ after.yaw = cube.yaw + dx * 1
                    /\ after.pitch = cube.pitch + dy * 1
                    /\ after.position = cube.position
               /\ scenes'[i].camera = scenes[i].camera
               /\ scenes'[i].screen.zoom = scenes[i].screen.zoom
    ]_vars

\* A pointermove of a drag with Shift held has just moved the first cube of a
\* controller along x and y.
C20_Witness ==
  /\ last.event = "pointermove"
  /\ last.shiftKey
  /\ \E i \in 1..Len(scenes) :
       /\ scenes[i].dragging
       /\ scenes[i].lastX # 0
       /\ scenes[i].lastY # 0
       /\ scenes[i].world[1].position.x # 0
       /\ scenes[i].world[1].position.y # 0
       /\ scenes[i].world[1].yaw = 0
       /\ scenes[i].world[1].pitch = 0

\* C21: after any sequence of rotatePitch calls the camera's pitch is within
\* [-(pi/2 - 0.01), pi/2 - 0.01], and a step that changes the pitch (a
\* rotatePitch call) changes neither position nor yaw nor fovY, near or far.
C21_PitchClamped ==
  /\ [](/\ tcam.orientation.pitch >= -MaxPitch
        /\ tcam.orientation.pitch <= MaxPitch)
  /\ [][tcam'.orientation.pitch # tcam.orientation.pitch =>
          /\ tcam'.position = tcam.position
          /\ tcam'.orientation.yaw = tcam.orientation.yaw
          /\ tcam'.fovY = tcam.fovY
          /\ tcam'.near = tcam.near
          /\ tcam'.far = tcam.far]_vars

\* A camera that turned and was then pitched up by a quarter turn stands at
\* the upper limit.
C21_Witness ==
  /\ tcam.orientation.pitch = MaxPitch
  /\ tcam.orientation.yaw # 0
  /\ events = 2

\* C26: after any sequence of rotateYaw calls with positive or negative
\* arguments, orientation.yaw lies between 0 and 2 * pi: 0 <= yaw < 2 * pi.
C26_YawNormalized ==
  /\ tcam.orientation.yaw >= 0
  /\ tcam.orientation.yaw < TwoPiC

C23_FacesBackToFront ==
  frame.scene # 0 =>
    LET sc == scenes[frame.scene]
    IN  \A k \in 1..Len(sc.world) :
          LET pv == ProjectVertices(sc.screen, sc.camera, sc.world[k])
              Seen(f) == {j \in 1..Len(f) : pv[f[j] + 1].st = "ok"}
              RECURSIVE Sum(_, _)
              Sum(f, j) == IF j > Len(f) THEN 0
                           ELSE (IF j \in Seen(f) THEN pv[f[j] + 1].projected.distance ELSE 0)
                                + Sum(f, j + 1)
              Fills == {c \in 1..Len(frame.calls) :
                          frame.calls[c].op = "fill" /\ frame.calls[c].fig = k}
              Face(c) == sc.world[k].faces[frame.calls[c].id[1] + 1]
          IN  \A c \in Fills, d \in Fills :
                c < d =>
                  \* avg(F) >= avg(G), the quotients compared by cross-multiplication
                  Sum(Face(c), 1) * Cardinality(Seen(Face(d)))
                    >= Sum(Face(d), 1) * Cardinality(Seen(Face(c)))

\* A render in which the first cube was filled in another order than that of
\* its faces list: a face later in the list, farther away, before an earlier one.
C23_Witness ==
  /\ frame.scene # 0
  /\ \E c \in 1..Len(frame.calls), d \in 1..Len(frame.calls) :
       /\ c < d
       /\ frame.calls[c].op = "fill"
       /\ frame.calls[d].op = "fill"
       /\ frame.calls[c].fig = 1
       /\ frame.calls[d].fig = 1
       /\ frame.calls[c].id[1] > frame.calls[d].id[1]

\* C24: a face is filled in a render only if every one of its vertices
\* projected to a non-null result; a face with a non-visible vertex is not
\* filled, while each of its visible vertices still has its marker and each
\* of the figure's edges between two visible vertices still has its line.
C24_FaceFilledIffAllVisible ==
  frame.scene # 0 =>
    LET sc == scenes[frame.scene]
    IN  \A k \in 1..Len(sc.world) :
          LET fig == sc.world[k]
              pv == ProjectVertices(sc.screen, sc.camera, fig)
              Ok(v) == pv[v + 1].st = "ok"
              Has(op, id) ==
                \E c \in 1..Len(frame.calls) :
                  /\ frame.calls[c].op = op
                  /\ frame.calls[c].fig = k
                  /\ frame.calls[c].id = id
          IN  \A n \in 1..Len(fig.faces) :
                LET face == fig.faces[n]
                    whole == \A j \in 1..Len(face) : Ok(face[j])
                IN  /\ Has("fill", << n - 1 >>) => whole
                    /\ ~whole =>
                         /\ ~Has("fill", << n - 1 >>)
                         /\ \A j \in 1..Len(face) :
                              Ok(face[j]) => Has("dot", << face[j] >>)
                         /\ \A e \in 1..Len(fig.edges) :
                              (Ok(fig.edges[e][1]) /\ Ok(fig.edges[e][2])) =>
                                Has("line", fig.edges[e])

\* A render in which a figure has a face with a non-visible vertex and a
\* visible one, not filled, next to a face of the same figure that is filled.
C24_Witness ==
  /\ frame.scene # 0
  /\ LET sc == scenes[frame.scene]
     IN  \E k \in 1..Len(sc.world) :
           LET fig == sc.world[k]
               Ok(v) == ProjectNorm(sc.camera, sc.screen, fig.vertices[v + 1]).ok
               Filled(n) == \E c \in 1..Len(frame.calls) :
                              /\ frame.calls[c].op = "fill"
                              /\ frame.calls[c].fig = k
                              /\ frame.calls[c].id = << n - 1 >>
           IN  \E n \in 1..Len(fig.faces), m \in 1..Len(fig.faces) :
                 /\ \E j \in 1..4 : ~Ok(fig.faces[n][j])
                 /\ \E j \in 1..4 : Ok(fig.faces[n][j])
                 /\ ~Filled(n)
                 /\ Filled(m)

C27_PositiveSidewaysIsRight ==
  \A d \in Distances :
    d > 0 =>
      LET ahead == MoveForward(tcam, 500).position
          before == ProjectNorm(tcam, tscr, ahead)
          moved == MoveSideways(tcam, d)
          after == ProjectNorm(moved, tscr, ahead)
      IN  /\ moved.position.y = tcam.position.y
          /\ moved.orientation = tcam.orientation
          /\ (before.ok /\ before.x = 0 /\ after.ok) => after.x < 0

\* C28: however many times drawTheCube has been invoked, a single input
\* event (pointer-move while dragging, wheel, key-down or key-up) causes
\* exactly one render pass, made by one controller on one scene: the
\* listeners of earlier invocations do not accumulate.
C28_OneRenderPerEvent ==
  (\/ last.event \in {"wheel", "keydown", "keyup"}
   \/ /\ last.event = "pointermove"
      /\ \E i \in 1..Len(scenes) : scenes[i].dragging) =>
    \E i \in 1..Len(last.renders) :
      /\ last.renders[i] = 1
      /\ \A j \in 1..Len(last.renders) : j # i => last.renders[j] = 0

\* C29: over any sequence of pointer events the first figure's yaw, pitch
\* and position change only on a pointer-move that arrives while dragging,
\* that is after a pointer-down and before the next pointer-up or
\* pointer-leave.  The delta applied is the difference between the move's
\* coordinates and lastX, lastY, which hold the coordinates of the
\* immediately preceding pointer-down or processed pointer-move; so the
\* deltas of one drag add up to (current position - pointer-down position).
C29_DragDeltas ==
  [][\A i \in 1..Len(scenes) :
       LET a == scenes[i]
           b == scenes'[i]
           f == a.world[1]
           g == b.world[1]
           e == last'
           dx == e.x - a.lastX
           dy == e.y - a.lastY
       IN  /\ b.dragging = (\/ e.event = "pointerdown"
                            \/ a.dragging /\ e.event \notin {"pointerup", "pointerleave"})
           /\ (g.yaw # f.yaw \/ g.pitch # f.pitch \/ g.position # f.position) =>
                (e.event = "pointermove" /\ a.dragging)
           /\ IF e.event = "pointerdown" \/ (e.event = "pointermove" /\ a.dragging)
              THEN b.lastX = e.x /\ b.lastY = e.y
              ELSE b.lastX = a.lastX /\ b.lastY = a.lastY
           /\ (e.event = "pointermove" /\ a.dragging /\ e.shiftKey) =>
                /\ g.position = V3(f.position.x + dx * MoveSpeed,
                                   f.position.y - dy * MoveSpeed, f.position.z)
                /\ g.yaw = f.yaw
                /\ g.pitch = f.pitch
           /\ (e.event = "pointermove" /\ a.dragging /\ ~e.shiftKey) =>
                /\ g.yaw = f.yaw + dx * YawSpeed
                /\ g.pitch = f.pitch + dy * PitchSpeed
                /\ g.position = f.position
           /\ (e.event = "pointermove" /\ a.dragging) => g.vertices = UpdateTransform(g).vertices
    ]_vars

\* A drag of two processed moves: pointer-down at (0, 0), a Shift move to
\* (1, 0) that shifted the first cube by one unit, and a move to (3, 1) that
\* turned it by 0.02 and 0.01 rad; the deltas add up to (3, 1) - (0, 0).
C29_Witness ==
  /\ events = 3
  /\ last.event = "pointermove"
  /\ last.x = 3
  /\ last.y = 1
  /\ scenes[1].dragging
  /\ scenes[1].lastX = 3
  /\ scenes[1].lastY = 1
  /\ scenes[1].world[1].position = V3(MoveSpeed, 0, 4000)
  /\ scenes[1].world[1].yaw = 2 * YawSpeed
  /\ scenes[1].world[1].pitch = PitchSpeed

\* C30: pointer drags modify only the first figure added: after any
\* sequence of pointer, wheel and key events the world still holds its three
\* figures in the order of setup, and the second and third have the yaw,
\* pitch, position and vertices that drawTheCube gave them.
C30_OtherFiguresUntouched ==
  \A i \in 1..Len(scenes) :
    LET setup == NewScene(win, legend).world
        world == scenes[i].world
    IN  /\ Len(world) = Len(setup)
        /\ \A k \in 2..Len(setup) :
             /\ world[k].yaw = setup[k].yaw
             /\ world[k].pitch = setup[k].pitch
             /\ world[k].position = setup[k].position
             /\ world[k].vertices = setup[k].vertices
             /\ world[k] = setup[k]
        /\ world[1].base = setup[1].base
        /\ world[1].edges = setup[1].edges

\* A drag has turned or moved the first cube away from its setup values
\* while the two other cubes kept theirs.
C30_Witness ==
  /\ scenes # << >>
  /\ last.event = "pointermove"
  /\ scenes[1].dragging
  /\ LET setup == NewScene(win, legend).world
     IN  /\ scenes[1].world[1].vertices # setup[1].vertices
         /\ scenes[1].world[2] = setup[2]
         /\ scenes[1].world[3] = setup[3]

====
